---------------------------- MODULE Spec2Model ----------------------------
(***************************************************************************)
(* A model of py-fhe: polynomial arithmetic in Z[x]/(x^N + 1), the         *)
(* NTT/FTT, the CRT/RNS representation, and the BFV and CKKS schemes.      *)
(*                                                                         *)
(* A polynomial is the sequence of its coefficients: coeffs[i] of the      *)
(* source is p[i + 1] here.  An absent modulus (coeff_modulus=None) is 0,  *)
(* which the source's "if coeff_modulus:" treats the same way.             *)
(***************************************************************************)
EXTENDS Integers, Sequences, FiniteSets, TLC

VARIABLES
    util,   \* the utility-level call in progress: its inputs and its result
    bfv,    \* a BFV session: parameters, keys, plaintexts, ciphertexts
    ckks    \* a CKKS session: parameters, keys, plaintext, ciphertext

vars == <<util, bfv, ckks>>

(***************************************************************************)
(* Bounds of the model.                                                    *)
(***************************************************************************)
\* Input coefficients are drawn from -MaxCoeff .. MaxCoeff (and, in ring
\* degree <= 2, from the neighbours of the modulus as well).
MaxCoeff == 1

(***************************************************************************)
(* Integer helpers.                                                        *)
(***************************************************************************)
Abs(x) == IF x < 0 THEN 0 - x ELSE x

RECURSIVE Pow(_, _)
Pow(b, e) == IF e = 0 THEN 1 ELSE b * Pow(b, e - 1)

RECURSIVE Log2(_)
\* int(log(n, 2)) for a power of two n.
Log2(n) == IF n <= 1 THEN 0 ELSE 1 + Log2(n \div 2)

RECURSIVE SumTo(_, _)
\* f[1] + ... + f[n]
SumTo(f, n) == IF n = 0 THEN 0 ELSE f[n] + SumTo(f, n - 1)

\* The sequence f with every element computed, once.
Strict(f) == f \o <<>>

ZeroPoly(N) == [i \in 1..N |-> 0]

\* All coefficient vectors of length N over the set S.
Vectors(N, S) == [1..N -> S]

(***************************************************************************)
(* util/number_theory.py                                                   *)
(***************************************************************************)
RECURSIVE mod_exp(_, _, _)
mod_exp(val, exp, modulus) ==
    IF exp = 0 THEN 1 % modulus
    ELSE LET half == mod_exp(val, exp \div 2, modulus)
             sq   == (half * half) % modulus
         IN  IF exp % 2 = 1 THEN (sq * (val % modulus)) % modulus ELSE sq

mod_inv(val, modulus) == mod_exp(val, modulus - 2, modulus)

\* The multiplicative order of g modulo the prime p: the least k >= 1 with
\* g^k = 1 (mod p).
MultOrder(g, p) ==
    CHOOSE k \in 1..(p - 1) :
        /\ mod_exp(g, k, p) = 1
        /\ \A j \in 1..(k - 1) : mod_exp(g, j, p) # 1

RECURSIVE FirstGeneratorFrom(_, _)
FirstGeneratorFrom(g, modulus) ==
    IF MultOrder(g, modulus) = modulus - 1 THEN g
    ELSE FirstGeneratorFrom(g + 1, modulus)

\* sympy.ntheory.primitive_root: the smallest primitive root of the prime.
find_generator(modulus) == FirstGeneratorFrom(1, modulus)

\* Defined where order divides modulus - 1 and order > 1 (the source raises
\* ValueError in the first case and recurses for ever when the result is 1).
root_of_unity(order, modulus) ==
    mod_exp(find_generator(modulus), (modulus - 1) \div order, modulus)

RECURSIVE HasDivisorFrom(_, _)
HasDivisorFrom(n, d) ==
    IF d * d > n THEN FALSE
    ELSE IF n % d = 0 THEN TRUE ELSE HasDivisorFrom(n, d + 1)

\* Miller-Rabin with 200 random bases, taken at its intended answer.
is_prime(number) ==
    IF number < 2 THEN FALSE
    ELSE IF number # 2 /\ number % 2 = 0 THEN FALSE
    ELSE ~HasDivisorFrom(number, 2)

(***************************************************************************)
(* util/bit_operations.py                                                  *)
(***************************************************************************)
RECURSIVE reverse_bits(_, _)
reverse_bits(value, width) ==
    IF width = 0 THEN 0
    ELSE (value % 2) * Pow(2, width - 1) + reverse_bits(value \div 2, width - 1)

bit_reverse_vec(values) ==
    LET n == Len(values)
    IN  Strict([i \in 1..n |-> values[reverse_bits(i - 1, Log2(n)) + 1]])

(***************************************************************************)
(* util/ntt.py: NTTContext                                                 *)
(***************************************************************************)
RECURSIVE PowersOf(_, _, _)
\* <<1, r, r^2, ..., r^(n-1)>> mod q, built as precompute_ntt builds it.
PowersOf(r, q, n) ==
    IF n = 1 THEN <<1>>
    ELSE LET prev == PowersOf(r, q, n - 1)
         IN  Append(prev, (prev[n - 1] * r) % q)

\* NTTContext(poly_degree, coeff_modulus) with the computed 2N-th root.
NTTContext(poly_degree, coeff_modulus) ==
    LET rou == root_of_unity(2 * poly_degree, coeff_modulus)
    IN  [degree             |-> poly_degree,
         coeff_modulus      |-> coeff_modulus,
         roots_of_unity     |-> PowersOf(rou, coeff_modulus, poly_degree),
         roots_of_unity_inv |-> PowersOf(mod_inv(rou, coeff_modulus),
                                         coeff_modulus, poly_degree)]

\* One pass "logm" of the butterfly loop of NTTContext.ntt: the butterflies
\* of a pass touch disjoint pairs (index_even, index_odd).
NttPass(ctx, result, rou, logm) ==
    LET n     == Len(result)
        q     == ctx.coeff_modulus
        half  == Pow(2, logm - 1)
        shift == Pow(2, 1 + Log2(n) - logm)
        omega_factor(i, index_odd) == (rou[i * shift + 1] * result[index_odd]) % q
    IN  Strict([k \in 1..n |->
            LET pos == (k - 1) % (2 * half)
            IN  IF pos < half
                THEN (result[k] + omega_factor(pos, k + half)) % q
                ELSE (result[k - half] - omega_factor(pos - half, k)) % q])

RECURSIVE NttLoop(_, _, _, _)
NttLoop(ctx, result, rou, logm) ==
    IF logm > Log2(Len(result)) THEN result
    ELSE NttLoop(ctx, NttPass(ctx, result, rou, logm), rou, logm + 1)

ntt(ctx, coeffs, rou) == NttLoop(ctx, bit_reverse_vec(coeffs), rou, 1)

\* ftt_fwd without the multiplication by the powers of the 2N-th root.
ftt_fwd_untwisted(ctx, coeffs) == ntt(ctx, coeffs, ctx.roots_of_unity)

ftt_fwd(ctx, coeffs) ==
    LET ftt_input == Strict([i \in 1..Len(coeffs) |->
                        (coeffs[i] * ctx.roots_of_unity[i]) % ctx.coeff_modulus])
    IN  ntt(ctx, ftt_input, ctx.roots_of_unity)

\* ftt_inv without the division by the degree.
ftt_inv_unscaled(ctx, coeffs) ==
    LET to_scale_down == ntt(ctx, coeffs, ctx.roots_of_unity_inv)
    IN  Strict([i \in 1..Len(coeffs) |->
            (to_scale_down[i] * ctx.roots_of_unity_inv[i]) % ctx.coeff_modulus])

ftt_inv(ctx, coeffs) ==
    LET to_scale_down   == ntt(ctx, coeffs, ctx.roots_of_unity_inv)
        poly_degree_inv == mod_inv(ctx.degree, ctx.coeff_modulus)
    IN  Strict([i \in 1..Len(coeffs) |->
            (to_scale_down[i] * ctx.roots_of_unity_inv[i] * poly_degree_inv)
                % ctx.coeff_modulus])

(***************************************************************************)
(* util/polynomial.py: Polynomial                                          *)
(***************************************************************************)
PolyMod(p, coeff_modulus) == Strict([i \in 1..Len(p) |-> p[i] % coeff_modulus])

PolyModSmall(p, coeff_modulus) ==
    Strict([i \in 1..Len(p) |->
        LET c == p[i] % coeff_modulus
        IN  IF c > coeff_modulus \div 2 THEN c - coeff_modulus ELSE c])

PolyAdd(p, poly, coeff_modulus) ==
    LET poly_sum == Strict([i \in 1..Len(p) |-> p[i] + poly[i]])
    IN  IF coeff_modulus # 0 THEN PolyMod(poly_sum, coeff_modulus) ELSE poly_sum

PolySubtract(p, poly, coeff_modulus) ==
    LET poly_diff == Strict([i \in 1..Len(p) |-> p[i] - poly[i]])
    IN  IF coeff_modulus # 0 THEN PolyMod(poly_diff, coeff_modulus) ELSE poly_diff

\* The convolution sum for x^d, 0 <= d <= 2N - 2.
ConvCoeff(p, poly, d) ==
    LET N == Len(p)
        term == [i \in 1..N |->
                    IF 0 <= d - (i - 1) /\ d - (i - 1) < N
                    THEN p[i] * poly[d - (i - 1) + 1] ELSE 0]
    IN  SumTo(term, N)

PolyMultiplyNaive(p, poly, coeff_modulus) ==
    LET N == Len(p)
        Red(x) == IF coeff_modulus # 0 THEN x % coeff_modulus ELSE x
    IN  Strict([k \in 1..N |->
            LET low == Red(ConvCoeff(p, poly, k - 1))
            IN  IF k - 1 + N <= 2 * N - 2
                THEN Red(low - ConvCoeff(p, poly, k - 1 + N))
                ELSE low])

\* Polynomial.multiply with an NTTContext (ntt=...), no CRTContext.
PolyMultiplyNTT(p, poly, ctx) ==
    LET a  == ftt_fwd(ctx, p)
        b  == ftt_fwd(ctx, poly)
        ab == Strict([i \in 1..Len(p) |-> a[i] * b[i]])
    IN  ftt_inv(ctx, ab)

PolyScalarMultiply(p, scalar, coeff_modulus) ==
    IF coeff_modulus # 0
    THEN Strict([i \in 1..Len(p) |-> (scalar * p[i]) % coeff_modulus])
    ELSE Strict([i \in 1..Len(p) |-> scalar * p[i]])

PolyScalarIntegerDivide(p, scalar, coeff_modulus) ==
    IF coeff_modulus # 0
    THEN Strict([i \in 1..Len(p) |-> (p[i] \div scalar) % coeff_modulus])
    ELSE Strict([i \in 1..Len(p) |-> p[i] \div scalar])

\* rotate without the negation of the coefficients that pass x^N.
PolyRotate_unsigned(p, r) ==
    LET N == Len(p)
        k == Pow(5, r)
    IN  Strict([j \in 1..N |->
            LET i == CHOOSE h \in 1..N : ((h - 1) * k) % N = j - 1
            IN  p[i]])

\* new_coeffs starts as zeros and is written in the order i = 0 .. N-1, so
\* the last writer of a slot wins.
PolyRotate(p, r) ==
    LET N == Len(p)
        k == Pow(5, r)
        index(i) == ((i - 1) * k) % (2 * N)
        slot(i)  == IF index(i) < N THEN index(i) ELSE index(i) - N
        Writers(j) == {i \in 1..N : slot(i) = j - 1}
        Last(S) == CHOOSE i \in S : \A h \in S : h <= i
    IN  Strict([j \in 1..N |->
            IF Writers(j) = {} THEN 0
            ELSE LET i == Last(Writers(j))
                 IN  IF index(i) < N THEN p[i] ELSE 0 - p[i]])

\* conjugate without the reversal of the coefficients.
PolyConjugate_unreversed(p) ==
    Strict([i \in 1..Len(p) |-> IF i = 1 THEN p[1] ELSE 0 - p[i]])

PolyConjugate(p) ==
    LET N == Len(p)
    IN  Strict([i \in 1..N |-> IF i = 1 THEN p[1] ELSE 0 - p[N - (i - 1) + 1]])

(***************************************************************************)
(* util/crt.py: CRTContext                                                 *)
(***************************************************************************)
RECURSIVE NextPrimeFrom(_, _)
\* "while not is_prime(possible_prime): possible_prime += mod"
NextPrimeFrom(possible_prime, mod) ==
    IF is_prime(possible_prime) THEN possible_prime
    ELSE NextPrimeFrom(possible_prime + mod, mod)

RECURSIVE generate_primes(_, _, _)
\* The list self.primes after generate_primes(num_primes, prime_size, mod).
generate_primes(num_primes, prime_size, mod) ==
    IF num_primes = 0 THEN <<>>
    ELSE LET before == generate_primes(num_primes - 1, prime_size, mod)
             possible_prime == IF num_primes = 1 THEN Pow(2, prime_size) + 1
                               ELSE before[num_primes - 1]
         IN  Append(before, NextPrimeFrom(possible_prime + mod, mod))

RECURSIVE ProductTo(_, _)
ProductTo(f, n) == IF n = 0 THEN 1 ELSE f[n] * ProductTo(f, n - 1)

CRTContext(num_primes, prime_size, poly_degree) ==
    LET primes  == generate_primes(num_primes, prime_size, 2 * poly_degree)
        modulus == ProductTo(primes, num_primes)
        crt_vals == Strict([i \in 1..num_primes |-> modulus \div primes[i]])
    IN  [poly_degree  |-> poly_degree,
         primes       |-> primes,
         ntts         |-> Strict([i \in 1..num_primes |->
                                    NTTContext(poly_degree, primes[i])]),
         modulus      |-> modulus,
         crt_vals     |-> crt_vals,
         crt_inv_vals |-> Strict([i \in 1..num_primes |->
                                    mod_inv(crt_vals[i], primes[i])])]

\* CRTContext.crt
crt_transform(crt, value) ==
    Strict([i \in 1..Len(crt.primes) |-> value % crt.primes[i]])

RECURSIVE ReconstructLoop_no_inverse(_, _, _)
\* The loop of reconstruct without the factors crt_inv_vals.
ReconstructLoop_no_inverse(crt, values, n) ==
    IF n = 0 THEN 0
    ELSE LET intermed_val == ((values[n] % crt.primes[n]) * crt.crt_vals[n])
                                 % crt.modulus
         IN  (ReconstructLoop_no_inverse(crt, values, n - 1) + intermed_val)
                 % crt.modulus

RECURSIVE ReconstructLoop(_, _, _)
\* regular_rep_val after the first n rounds of the loop of reconstruct.
ReconstructLoop(crt, values, n) ==
    IF n = 0 THEN 0
    ELSE LET intermed_val == (((values[n] * crt.crt_inv_vals[n]) % crt.primes[n])
                                 * crt.crt_vals[n]) % crt.modulus
         IN  (ReconstructLoop(crt, values, n - 1) + intermed_val) % crt.modulus

AssertionError == [ok |-> FALSE, error |-> "AssertionError"]
Returned(v) == [ok |-> TRUE, value |-> v]

\* CRTContext.reconstruct, with the outcome of its length assertion.
crt_reconstruct(crt, values) ==
    IF Len(values) # Len(crt.primes) THEN AssertionError
    ELSE Returned(ReconstructLoop(crt, values, Len(values)))

\* multiply_crt without its final mod_small.
PolyMultiplyCRT_no_mod_small(p, poly, crt) ==
    LET poly_prods == Strict([i \in 1..Len(crt.primes) |->
                                PolyMultiplyNTT(p, poly, crt.ntts[i])])
    IN  Strict([j \in 1..Len(p) |->
            crt_reconstruct(crt, Strict([i \in 1..Len(crt.primes) |->
                                            poly_prods[i][j]])).value])

\* Polynomial.multiply_crt
PolyMultiplyCRT(p, poly, crt) ==
    LET poly_prods == Strict([i \in 1..Len(crt.primes) |->
                                PolyMultiplyNTT(p, poly, crt.ntts[i])])
        final_coeffs == Strict([j \in 1..Len(p) |->
            crt_reconstruct(crt, Strict([i \in 1..Len(crt.primes) |->
                                            poly_prods[i][j]])).value])
    IN  PolyModSmall(final_coeffs, crt.modulus)

(***************************************************************************)
(* util/dcrt_polynomial.py: DCRTPolynomial, the sequence polys of residue  *)
(* polynomials, one per prime of its CRTContext.                           *)
(***************************************************************************)
NumPrimes(crt) == Len(crt.primes)

DCRTPolynomial(coeffs, crt) ==
    Strict([i \in 1..NumPrimes(crt) |-> PolyMod(coeffs, crt.primes[i])])

DcrtAdd(dp, poly, crt) ==
    Strict([i \in 1..NumPrimes(crt) |-> PolyAdd(dp[i], poly[i], crt.primes[i])])

DcrtSubtract(dp, poly, crt) ==
    Strict([i \in 1..NumPrimes(crt) |-> PolySubtract(dp[i], poly[i], crt.primes[i])])

DcrtMultiply(dp, poly, crt) ==
    Strict([i \in 1..NumPrimes(crt) |-> PolyMultiplyNTT(dp[i], poly[i], crt.ntts[i])])

DcrtScalarMultiply(dp, scalar, crt) ==
    Strict([i \in 1..NumPrimes(crt) |-> PolyScalarMultiply(dp[i], scalar, crt.primes[i])])

DcrtScalarIntegerDivide(dp, scalar, crt) ==
    Strict([i \in 1..NumPrimes(crt) |-> PolyScalarIntegerDivide(dp[i], scalar, crt.primes[i])])

DcrtRotate(dp, r, crt) ==
    Strict([i \in 1..NumPrimes(crt) |-> PolyRotate(dp[i], r)])

DcrtConjugate(dp, crt) ==
    Strict([i \in 1..NumPrimes(crt) |-> PolyConjugate(dp[i])])

DcrtReconstruct(dp, crt) ==
    Strict([j \in 1..crt.poly_degree |->
        crt_reconstruct(crt, Strict([i \in 1..NumPrimes(crt) |-> dp[i][j]])).value])

(***************************************************************************)
(* Inputs of the utility layer.                                            *)
(***************************************************************************)
SmallCoeffs == (0 - MaxCoeff)..MaxCoeff

\* Integer coefficients offered to an operation of ring degree N working
\* modulo q: negative, small, and around the modulus.
InputCoeffs(N, q) ==
    IF N <= 2 THEN SmallCoeffs \cup {q - 1, q, q + 1}
    ELSE (0..MaxCoeff) \cup {q - 1}

NoCall == [op |-> "none"]

(***************************************************************************)
(* NTT session: an NTTContext and calls of Polynomial.multiply (ntt=...),  *)
(* NTTContext.ftt_fwd and NTTContext.ftt_inv.                              *)
(*   util.trace is the sequence of calls made, util.val the last result.   *)
(***************************************************************************)
\* (N, q) with N a power of two and q a prime, q = 1 (mod 2N).
NTTParams == {<<1, 3>>, <<2, 5>>, <<2, 13>>, <<4, 17>>}

NTTInit ==
    /\ \E nq \in NTTParams :
         \E a \in Vectors(nq[1], InputCoeffs(nq[1], nq[2])) :
            util = [op |-> "ntt", N |-> nq[1], q |-> nq[2], a |-> a, b |-> a,
                    trace |-> <<>>, val |-> a]
    /\ bfv = NoCall
    /\ ckks = NoCall

UtilCtx == NTTContext(util.N, util.q)

\* a.multiply(b, q, ntt=NTTContext(N, q))
NTTMultiply ==
    /\ util.op = "ntt" /\ util.trace = <<>>
    /\ \E b \in Vectors(util.N, InputCoeffs(util.N, util.q)) :
         util' = [util EXCEPT !.b = b, !.trace = <<"multiply">>,
                              !.val = PolyMultiplyNTT(util.a, b, UtilCtx)]
    /\ UNCHANGED <<bfv, ckks>>

\* ftt_fwd applied to the current vector.
NTTFttFwd ==
    /\ util.op = "ntt" /\ Len(util.trace) < 2
    /\ (util.trace = <<>> \/ util.trace = <<"ftt_inv">>)
    /\ util' = [util EXCEPT !.trace = Append(util.trace, "ftt_fwd"),
                            !.val = ftt_fwd(UtilCtx, util.val)]
    /\ UNCHANGED <<bfv, ckks>>

\* ftt_inv applied to the current vector.
NTTFttInv ==
    /\ util.op = "ntt" /\ Len(util.trace) < 2
    /\ (util.trace = <<>> \/ util.trace = <<"ftt_fwd">>)
    /\ util' = [util EXCEPT !.trace = Append(util.trace, "ftt_inv"),
                            !.val = ftt_inv(UtilCtx, util.val)]
    /\ UNCHANGED <<bfv, ckks>>

NTTNext == NTTMultiply \/ NTTFttFwd \/ NTTFttInv

SpecNTT == NTTInit /\ [][NTTNext]_vars

\* C5: a.multiply(b, q, ntt=NTTContext(N, q)) has the coefficients of
\* a.multiply_naive(b, q), the negacyclic product with representatives in
\* [0, q), for all integer coefficient vectors a and b.
C5_NttMultiplyIsNaive ==
    (util.op = "ntt" /\ util.trace = <<"multiply">>) =>
        /\ util.val = PolyMultiplyNaive(util.a, util.b, util.q)
        /\ \A i \in 1..util.N : util.val[i] \in 0..(util.q - 1)

\* A product of degree 4 in which x^N = -1 is used and an operand has a
\* coefficient outside [0, q) or at its top.
C5_Witness ==
    /\ util.op = "ntt" /\ util.trace = <<"multiply">>
    /\ util.N = 4
    /\ util.a[4] = util.q - 1 /\ util.b[4] = 1 /\ util.b[2] = 1
    /\ util.val # ZeroPoly(4)

\* C7: ftt_inv(ftt_fwd(c)) and ftt_fwd(ftt_inv(c)) are both [c_i mod q],
\* for every integer vector c of length N.
C7_FttRoundTrip ==
    (util.op = "ntt" /\ (util.trace = <<"ftt_fwd", "ftt_inv">>
                          \/ util.trace = <<"ftt_inv", "ftt_fwd">>)) =>
        util.val = PolyMod(util.a, util.q)

\* The decode(encode(c)) direction on a vector that is not constant, and
\* the other direction on a vector with an entry outside [0, q).
C7_Witness ==
    /\ util.op = "ntt"
    /\ \/ util.trace = <<"ftt_inv", "ftt_fwd">> /\ util.N = 4
          /\ util.a[1] = 0 /\ util.a[2] = 1 /\ util.a[4] = util.q - 1
       \/ util.trace = <<"ftt_fwd", "ftt_inv">> /\ util.N = 2
          /\ util.a[1] = util.q + 1 /\ util.a[2] = 0 - 1
    /\ util.val = PolyMod(util.a, util.q)

(***************************************************************************)
(* CRT session: a CRTContext and calls of crt, reconstruct and             *)
(* Polynomial.multiply_crt.                                                *)
(***************************************************************************)
\* (num_primes, prime_size, poly_degree) with 2^prime_size a multiple of
\* 2 * poly_degree.
CRTParams == {<<2, 1, 1>>, <<1, 2, 2>>, <<2, 2, 2>>, <<3, 2, 2>>, <<2, 3, 4>>}

CRTInit ==
    /\ \E ksn \in CRTParams :
         LET crt == CRTContext(ksn[1], ksn[2], ksn[3])
         IN  \/ \E v \in (0 - crt.modulus)..(2 * crt.modulus - 1) :
                  util = [op |-> "crt", crt |-> crt, kind |-> "value", v |-> v,
                          a |-> <<>>, b |-> <<>>, trace |-> <<>>, val |-> v,
                          rev |-> <<>>]
             \/ \E a \in Vectors(ksn[3], InputCoeffs(ksn[3], crt.primes[1])) :
                  util = [op |-> "crt", crt |-> crt, kind |-> "poly", v |-> 0,
                          a |-> a, b |-> a, trace |-> <<>>, val |-> a,
                          rev |-> <<>>]
    /\ bfv = NoCall
    /\ ckks = NoCall

\* crt(v)
CRTTransform ==
    /\ util.op = "crt" /\ util.kind = "value" /\ util.trace = <<>>
    /\ util' = [util EXCEPT !.trace = <<"crt">>,
                            !.val = crt_transform(util.crt, util.v)]
    /\ UNCHANGED <<bfv, ckks>>

\* reconstruct(values) on the residues crt(v) returned.
CRTReconstruct ==
    /\ util.op = "crt" /\ util.trace = <<"crt">>
    /\ util' = [util EXCEPT !.trace = <<"crt", "reconstruct">>,
                            !.val = crt_reconstruct(util.crt, util.val)]
    /\ UNCHANGED <<bfv, ckks>>

\* reconstruct(values) on a list that is one residue short or one too long.
CRTReconstructWrongLength ==
    /\ util.op = "crt" /\ util.trace = <<"crt">>
    /\ \E values \in {SubSeq(util.val, 1, Len(util.val) - 1),
                      Append(util.val, 0)} :
         util' = [util EXCEPT !.trace = <<"crt", "reconstruct_wrong_length">>,
                              !.b = values,
                              !.val = crt_reconstruct(util.crt, values)]
    /\ UNCHANGED <<bfv, ckks>>

\* a.multiply_crt(b, crt) into val, and b.multiply_crt(a, crt) into rev.
CRTMultiply ==
    /\ util.op = "crt" /\ util.kind = "poly" /\ util.trace = <<>>
    /\ \E b \in Vectors(Len(util.a), InputCoeffs(Len(util.a), util.crt.primes[1])) :
         util' = [util EXCEPT !.b = b, !.trace = <<"multiply_crt">>,
                              !.val = PolyMultiplyCRT(util.a, b, util.crt),
                              !.rev = PolyMultiplyCRT(b, util.a, util.crt)]
    /\ UNCHANGED <<bfv, ckks>>

CRTNext == CRTTransform \/ CRTReconstruct \/ CRTReconstructWrongLength \/ CRTMultiply

SpecCRT == CRTInit /\ [][CRTNext]_vars

\* The integer negacyclic product a.multiply_naive(b) of the two operands.
CRTTrueProduct == PolyMultiplyNaive(util.a, util.b, 0)

\* C6: a.multiply_crt(b, crt) is the integer negacyclic product
\* a.multiply_naive(b) reduced into (-Q/2, Q/2]: it is the exact product
\* when every coefficient of the product has magnitude below Q/2, and it
\* equals b.multiply_crt(a, crt).
C6_MultiplyCrtIsNaive ==
    (util.op = "crt" /\ util.trace = <<"multiply_crt">>) =>
        LET Q == util.crt.modulus
        IN  /\ \A i \in 1..Len(util.a) :
                  /\ (util.val[i] - CRTTrueProduct[i]) % Q = 0
                  /\ 0 - Q < 2 * util.val[i] /\ 2 * util.val[i] <= Q
            /\ (\A i \in 1..Len(util.a) : 2 * Abs(CRTTrueProduct[i]) < Q)
                  => util.val = CRTTrueProduct
            /\ util.val = util.rev

\* A product over two primes with different operands, one coefficient of
\* which is negative and another beyond Q/2, so that it is reduced.
C6_Witness ==
    /\ util.op = "crt" /\ util.trace = <<"multiply_crt">>
    /\ Len(util.crt.primes) = 2 /\ Len(util.a) = 2
    /\ util.a # util.b
    /\ 2 * CRTTrueProduct[2] > util.crt.modulus
    /\ CRTTrueProduct[1] < 0
    /\ util.val[2] = CRTTrueProduct[2] - util.crt.modulus

\* C8: reconstruct(crt(v)) is v mod Q for every integer v, so v itself when
\* 0 <= v < Q; reconstruct on a list whose length is not the number of
\* primes fails with an error and returns no value.
C8_CrtRoundTrip ==
    /\ (util.op = "crt" /\ util.trace = <<"crt", "reconstruct">>) =>
          /\ util.val.ok
          /\ util.val.value = util.v % util.crt.modulus
          /\ (0 <= util.v /\ util.v < util.crt.modulus) => util.val.value = util.v
    /\ (util.op = "crt" /\ util.trace = <<"crt", "reconstruct_wrong_length">>) =>
          ~util.val.ok

\* A value above every one of three primes, residues taken and reconstructed.
C8_Witness ==
    /\ util.op = "crt" /\ util.trace = <<"crt", "reconstruct">>
    /\ Len(util.crt.primes) = 3
    /\ \A i \in 1..3 : util.v > util.crt.primes[i]
    /\ util.val = Returned(util.v)

(***************************************************************************)
(* DCRT session: DCRTPolynomial(x) under one operation, reconstructed.     *)
(***************************************************************************)
MaxScalar == 2
MaxRot == 3

Scalars == (0 - MaxScalar)..MaxScalar
Divisors == 1..(MaxScalar + 1)

\* (num_primes, prime_size, poly_degree, coefficient modulus q)
DCRTParams == {<<2, 1, 1, 3>>, <<2, 2, 2, 4>>, <<2, 2, 2, 5>>, <<2, 3, 4, 2>>}

\* Coefficients of the first operand: [0, q), and two values of [0, Q) that
\* are not below every prime.
DcrtInputCoeffs(q, crt) == (0..(q - 1)) \cup {crt.primes[1], crt.modulus - 1}

DCRTInit ==
    /\ \E p \in DCRTParams :
         LET crt == CRTContext(p[1], p[2], p[3])
         IN  \E x \in Vectors(p[3], DcrtInputCoeffs(p[4], crt)) :
               util = [op |-> "dcrt", crt |-> crt, q |-> p[4], x |-> x, y |-> x,
                       call |-> "none", arg |-> 0, val |-> x]
    /\ bfv = NoCall
    /\ ckks = NoCall

DcrtFresh == util.op = "dcrt" /\ util.call = "none"
DcrtX == DCRTPolynomial(util.x, util.crt)
DcrtOperands == Vectors(Len(util.x), 0..(util.q - 1))

DcrtCallAdd ==
    /\ DcrtFresh
    /\ \E y \in DcrtOperands :
         util' = [util EXCEPT !.y = y, !.call = "add",
            !.val = DcrtReconstruct(
                DcrtAdd(DcrtX, DCRTPolynomial(y, util.crt), util.crt), util.crt)]
    /\ UNCHANGED <<bfv, ckks>>

DcrtCallSubtract ==
    /\ DcrtFresh
    /\ \E y \in DcrtOperands :
         util' = [util EXCEPT !.y = y, !.call = "subtract",
            !.val = DcrtReconstruct(
                DcrtSubtract(DcrtX, DCRTPolynomial(y, util.crt), util.crt), util.crt)]
    /\ UNCHANGED <<bfv, ckks>>

DcrtCallMultiply ==
    /\ DcrtFresh
    /\ \E y \in DcrtOperands :
         util' = [util EXCEPT !.y = y, !.call = "multiply",
            !.val = DcrtReconstruct(
                DcrtMultiply(DcrtX, DCRTPolynomial(y, util.crt), util.crt), util.crt)]
    /\ UNCHANGED <<bfv, ckks>>

DcrtCallScalarMultiply ==
    /\ DcrtFresh
    /\ \E scalar \in Scalars :
         util' = [util EXCEPT !.arg = scalar, !.call = "scalar_multiply",
            !.val = DcrtReconstruct(
                DcrtScalarMultiply(DcrtX, scalar, util.crt), util.crt)]
    /\ UNCHANGED <<bfv, ckks>>

DcrtCallScalarIntegerDivide ==
    /\ DcrtFresh
    /\ \E scalar \in Divisors :
         util' = [util EXCEPT !.arg = scalar, !.call = "scalar_integer_divide",
            !.val = DcrtReconstruct(
                DcrtScalarIntegerDivide(DcrtX, scalar, util.crt), util.crt)]
    /\ UNCHANGED <<bfv, ckks>>

DcrtCallRotate ==
    /\ DcrtFresh
    /\ \E r \in 0..MaxRot :
         util' = [util EXCEPT !.arg = r, !.call = "rotate",
            !.val = DcrtReconstruct(DcrtRotate(DcrtX, r, util.crt), util.crt)]
    /\ UNCHANGED <<bfv, ckks>>

DcrtCallConjugate ==
    /\ DcrtFresh
    /\ util' = [util EXCEPT !.call = "conjugate",
            !.val = DcrtReconstruct(DcrtConjugate(DcrtX, util.crt), util.crt)]
    /\ UNCHANGED <<bfv, ckks>>

DCRTNext ==
    \/ DcrtCallAdd \/ DcrtCallSubtract \/ DcrtCallMultiply
    \/ DcrtCallScalarMultiply \/ DcrtCallScalarIntegerDivide
    \/ DcrtCallRotate \/ DcrtCallConjugate

SpecDCRT == DCRTInit /\ [][DCRTNext]_vars

\* Polynomial(x).op(...) over the integers, for the operation called.
DcrtTrueResult ==
    CASE util.call = "add"             -> PolyAdd(util.x, util.y, 0)
      [] util.call = "subtract"        -> PolySubtract(util.x, util.y, 0)
      [] util.call = "multiply"        -> PolyMultiplyNaive(util.x, util.y, 0)
      [] util.call = "scalar_multiply" -> PolyScalarMultiply(util.x, util.arg, 0)
      [] util.call = "scalar_integer_divide"
                                       -> PolyScalarIntegerDivide(util.x, util.arg, 0)
      [] util.call = "rotate"          -> PolyRotate(util.x, util.arg)
      [] util.call = "conjugate"       -> PolyConjugate(util.x)
      [] OTHER                         -> util.x

\* The operands have entries in [0, q) and the CRT modulus exceeds the
\* magnitude of every coefficient of the true result.
DcrtInRange ==
    /\ \A j \in 1..Len(util.x) : util.x[j] \in 0..(util.q - 1)
    /\ \A j \in 1..Len(util.x) : Abs(DcrtTrueResult[j]) < util.crt.modulus

\* C9: for x, y with entries in [0, q) and a CRT modulus above the magnitude
\* of every true result, DCRTPolynomial(x).op(...).reconstruct().mod_small(q)
\* has the coefficients of Polynomial(x).op(...) reduced with mod_small(q),
\* for op among add, subtract, multiply, scalar_multiply, rotate, conjugate.
C9_DcrtMirrorsPolynomial ==
    (/\ util.op = "dcrt"
     /\ util.call \in {"add", "subtract", "multiply", "scalar_multiply",
                       "rotate", "conjugate"}
     /\ DcrtInRange) =>
        PolyModSmall(util.val, util.q) = PolyModSmall(DcrtTrueResult, util.q)

\* C10: for x with entries in [0, Q) and d >= 1,
\* DCRTPolynomial(x).scalar_integer_divide(d).reconstruct() has, after
\* mod_small(q), the coefficients floor(x_j / d) of
\* Polynomial(x).scalar_integer_divide(d).
C10_DcrtIntegerDivide ==
    (/\ util.op = "dcrt"
     /\ util.call = "scalar_integer_divide"
     /\ \A j \in 1..Len(util.x) : util.x[j] \in 0..(util.crt.modulus - 1)) =>
        PolyModSmall(util.val, util.q) = PolyModSmall(DcrtTrueResult, util.q)

(***************************************************************************)
(* DCRT sequence session: a DCRTPolynomial built from integer coefficients *)
(* and a bounded sequence of DCRTPolynomial operations on it.              *)
(***************************************************************************)
DcrtMod(dp, crt) ==
    Strict([i \in 1..NumPrimes(crt) |-> PolyMod(dp[i], crt.primes[i])])

DcrtModSmall(dp, crt) ==
    Strict([i \in 1..NumPrimes(crt) |-> PolyModSmall(dp[i], crt.primes[i])])

\* The longest sequence of operations of a session.
MaxOps == 2

\* (num_primes, prime_size, poly_degree)
DCRTSeqParams == {<<2, 1, 1>>, <<2, 2, 2>>}

\* Integer coefficients a DCRTPolynomial is built from.
DcrtSeqCoeffs(crt) == SmallCoeffs \cup {crt.primes[1], crt.modulus - 1}

DCRTSeqInit ==
    /\ \E p \in DCRTSeqParams :
         LET crt == CRTContext(p[1], p[2], p[3])
         IN  \E x \in Vectors(p[3], DcrtSeqCoeffs(crt)) :
               util = [op |-> "dcrtseq", crt |-> crt, call |-> "init", ops |-> 0,
                       polys |-> DCRTPolynomial(x, crt)]
    /\ bfv = NoCall
    /\ ckks = NoCall

DcrtSeqReady == util.op = "dcrtseq" /\ util.ops < MaxOps

\* The session after the operation call has returned polys.
DcrtSeqStep(call, polys) ==
    [util EXCEPT !.call = call, !.ops = util.ops + 1, !.polys = polys]

DcrtSeqOperands == {DCRTPolynomial(y, util.crt) :
                       y \in Vectors(util.crt.poly_degree, SmallCoeffs)}

DcrtSeqAdd ==
    /\ DcrtSeqReady
    /\ \E poly \in DcrtSeqOperands :
         util' = DcrtSeqStep("add", DcrtAdd(util.polys, poly, util.crt))
    /\ UNCHANGED <<bfv, ckks>>

DcrtSeqSubtract ==
    /\ DcrtSeqReady
    /\ \E poly \in DcrtSeqOperands :
         util' = DcrtSeqStep("subtract", DcrtSubtract(util.polys, poly, util.crt))
    /\ UNCHANGED <<bfv, ckks>>

DcrtSeqMultiply ==
    /\ DcrtSeqReady
    /\ \E poly \in DcrtSeqOperands :
         util' = DcrtSeqStep("multiply", DcrtMultiply(util.polys, poly, util.crt))
    /\ UNCHANGED <<bfv, ckks>>

DcrtSeqScalarMultiply ==
    /\ DcrtSeqReady
    /\ \E scalar \in Scalars :
         util' = DcrtSeqStep("scalar_multiply",
                             DcrtScalarMultiply(util.polys, scalar, util.crt))
    /\ UNCHANGED <<bfv, ckks>>

DcrtSeqScalarIntegerDivide ==
    /\ DcrtSeqReady
    /\ \E scalar \in Divisors :
         util' = DcrtSeqStep("scalar_integer_divide",
                             DcrtScalarIntegerDivide(util.polys, scalar, util.crt))
    /\ UNCHANGED <<bfv, ckks>>

DcrtSeqRotate ==
    /\ DcrtSeqReady
    /\ \E r \in 0..MaxRot :
         util' = DcrtSeqStep("rotate", DcrtRotate(util.polys, r, util.crt))
    /\ UNCHANGED <<bfv, ckks>>

DcrtSeqConjugate ==
    /\ DcrtSeqReady
    /\ util' = DcrtSeqStep("conjugate", DcrtConjugate(util.polys, util.crt))
    /\ UNCHANGED <<bfv, ckks>>

DcrtSeqMod ==
    /\ DcrtSeqReady
    /\ util' = DcrtSeqStep("mod", DcrtMod(util.polys, util.crt))
    /\ UNCHANGED <<bfv, ckks>>

DcrtSeqModSmall ==
    /\ DcrtSeqReady
    /\ util' = DcrtSeqStep("mod_small", DcrtModSmall(util.polys, util.crt))
    /\ UNCHANGED <<bfv, ckks>>

DCRTSeqNext ==
    \/ DcrtSeqAdd \/ DcrtSeqSubtract \/ DcrtSeqMultiply
    \/ DcrtSeqScalarMultiply \/ DcrtSeqScalarIntegerDivide
    \/ DcrtSeqRotate \/ DcrtSeqConjugate \/ DcrtSeqMod \/ DcrtSeqModSmall

SpecDCRTSeq == DCRTSeqInit /\ [][DCRTSeqNext]_vars

\* C11: for a DCRTPolynomial built from integer coefficients and after any
\* sequence of add, subtract, multiply, scalar_multiply,
\* scalar_integer_divide, rotate, conjugate, mod and mod_small, every
\* coefficient of polys[i] lies in [0, primes[i]), for every i.
C11_DcrtResidueRange ==
    util.op = "dcrtseq" =>
        \A i \in 1..NumPrimes(util.crt) : \A j \in 1..util.crt.poly_degree :
            util.polys[i][j] \in 0..(util.crt.primes[i] - 1)

(***************************************************************************)
(* Floating-point steps.  scalar_multiply(1 / x) followed by round() or    *)
(* floor() goes through Python floats.  The quotients here are exact       *)
(* rationals n / d; a double product differs from n / d by less than the   *)
(* distance 1 / (2 d) of a non-tie from a tie for the magnitudes of the    *)
(* model, so that the float is decisive only at ties and at exact          *)
(* multiples, which the definitions treat one by one.                      *)
(***************************************************************************)
\* Python's round(n / d) for d > 0: nearest integer, ties to the even one.
RoundDown(n, d) == n \div d

RoundHalfEven(n, d) ==
    LET low == n \div d
        rem == n % d
    IN  IF 2 * rem < d THEN low
        ELSE IF 2 * rem > d THEN low + 1
        ELSE IF low % 2 = 0 THEN low ELSE low + 1

\* p.scalar_multiply(num / den).round()
PolyScaleRound(p, num, den) ==
    Strict([i \in 1..Len(p) |-> RoundHalfEven(p[i] * num, den)])

\* Polynomial.multiply_fft: the float FFT product over the integers,
\* rounded; exact while N * max|a| * max|b| stays far below 2^53.
PolyMultiplyFFT(p, poly) == PolyMultiplyNaive(p, poly, 0)

\* The non-negative multiples c of base = 49, up to 49^2, whose double
\* product c * (1 / 49) falls just below the integer c / 49.  No base below
\* 49 has such a multiple.
LowMultiplesOf49 ==
    {49 * k : k \in (1..4) \cup (6..8) \cup (12..16) \cup (23..32) \cup (45..49)}

\* int(c * (1 / base)) of base_decompose, for |c| <= base^2, base <= 49:
\* the double product, truncated towards zero.
ScaleDownFloor(c, base) ==
    LET a == Abs(c)
        t == IF base = 49 /\ a \in LowMultiplesOf49 THEN a \div base - 1
             ELSE a \div base
    IN  IF c < 0 THEN 0 - t ELSE t

RECURSIVE PolyBaseDecompose(_, _, _)
\* Polynomial.base_decompose: the list of num_levels digit polynomials.
PolyBaseDecompose(p, base, num_levels) ==
    IF num_levels = 0 THEN <<>>
    ELSE <<PolyMod(p, base)>> \o
         PolyBaseDecompose(Strict([i \in 1..Len(p) |-> ScaleDownFloor(p[i], base)]),
                           base, num_levels - 1)

(***************************************************************************)
(* bfv/: parameters, key generation, encryption, decryption, evaluation.   *)
(* params.scaling_factor is the float q / t: the encryptor truncates it to *)
(* the integer q div t, the decryptor and the evaluator multiply by        *)
(* 1 / (q / t), the fraction t / q.                                        *)
(***************************************************************************)
BFVParameters(poly_degree, plain_modulus, ciph_modulus) ==
    [poly_degree   |-> poly_degree,
     plain_modulus |-> plain_modulus,
     ciph_modulus  |-> ciph_modulus]

\* generate_public_key from the secret s, the uniform draw pk_coeff and the
\* triangle draw pk_error.
BFVPublicKey(params, s, pk_coeff, pk_error) ==
    LET q == params.ciph_modulus
    IN  [p0 |-> PolyScalarMultiply(
                    PolyAdd(pk_error, PolyMultiplyNaive(pk_coeff, s, q), q), 0 - 1, q),
         p1 |-> pk_coeff]

RECURSIVE CeilSqrtFrom(_, _)
CeilSqrtFrom(q, b) == IF b * b >= q THEN b ELSE CeilSqrtFrom(q, b + 1)

\* ceil(sqrt(q))
CeilSqrt(q) == CeilSqrtFrom(q, 1)

RECURSIVE FloorLog(_, _)
\* floor(log(q, base)) for q that is not a power of base.
FloorLog(q, base) == IF q < base THEN 0 ELSE 1 + FloorLog(q \div base, base)

\* The pair keys[i] of generate_relin_key for the draws k1 and error, with
\* power = base^i mod q.
BFVRelinKeyElement(params, s, k1, error, power) ==
    LET q == params.ciph_modulus
        sk_squared == PolyMultiplyNaive(s, s, q)
        k0 == PolyMod(
                PolyAdd(PolyScalarMultiply(
                            PolyAdd(PolyMultiplyNaive(s, k1, q), error, q), 0 - 1, 0),
                        PolyScalarMultiply(sk_squared, power, 0), q), q)
    IN  [k0 |-> k0, k1 |-> k1]

\* generate_relin_key: draws[i] = [k1, error] are the draws of round i.
BFVRelinKey(params, s, draws) ==
    LET q    == params.ciph_modulus
        base == CeilSqrt(q)
    IN  [base |-> base,
         keys |-> Strict([i \in 1..Len(draws) |->
                    BFVRelinKeyElement(params, s, draws[i].k1, draws[i].error,
                                       Pow(base, i - 1) % q)])]

\* The number of rounds of generate_relin_key.
BFVNumLevels(params) ==
    FloorLog(params.ciph_modulus, CeilSqrt(params.ciph_modulus)) + 1

\* BFVEncryptor.encrypt with the triangle draw random_vec; error1 and error2
\* are drawn and then replaced by zero polynomials.
BFVEncrypt(params, pk, message, random_vec) ==
    LET q == params.ciph_modulus
        N == params.poly_degree
        scaling_factor == q \div params.plain_modulus
        scaled_message == PolyScalarMultiply(message, scaling_factor, q)
        error1 == ZeroPoly(N)
        error2 == ZeroPoly(N)
    IN  [c0 |-> PolyAdd(PolyAdd(error1, PolyMultiplyNaive(pk.p0, random_vec, q), q),
                        scaled_message, q),
         c1 |-> PolyAdd(error2, PolyMultiplyNaive(pk.p1, random_vec, q), q)]

\* BFVDecryptor.decrypt (no c2)
BFVDecrypt(params, s, ciphertext) ==
    LET q == params.ciph_modulus
        intermed_message ==
            PolyAdd(ciphertext.c0, PolyMultiplyNaive(ciphertext.c1, s, q), q)
    IN  PolyMod(PolyScaleRound(intermed_message, params.plain_modulus, q),
                params.plain_modulus)

\* add that keeps the c1 of its first operand.
BFVAdd_c0_only(params, ciph1, ciph2) ==
    [c0 |-> PolyAdd(ciph1.c0, ciph2.c0, params.ciph_modulus),
     c1 |-> ciph1.c1]

\* BFVEvaluator.add
BFVAdd(params, ciph1, ciph2) ==
    [c0 |-> PolyAdd(ciph1.c0, ciph2.c0, params.ciph_modulus),
     c1 |-> PolyAdd(ciph1.c1, ciph2.c1, params.ciph_modulus)]

RECURSIVE RelinLoop(_, _, _, _, _)
\* new_c0 or new_c1 after the first n rounds of the loop of relinearize;
\* which is "k0" or "k1".
RelinLoop(params, keys, c2_decomposed, start, n) ==
    IF n = 0 THEN start[1]
    ELSE PolyAdd(RelinLoop(params, keys, c2_decomposed, start, n - 1),
                 PolyMultiplyNaive(IF start[2] = "k0" THEN keys[n].k0 ELSE keys[n].k1,
                                   c2_decomposed[n], params.ciph_modulus),
                 params.ciph_modulus)

\* relinearize that drops c2.
BFVRelinearize_dropped(params, relin_key, c0, c1, c2) == [c0 |-> c0, c1 |-> c1]

\* BFVEvaluator.relinearize
BFVRelinearize(params, relin_key, c0, c1, c2) ==
    LET num_levels    == Len(relin_key.keys)
        c2_decomposed == PolyBaseDecompose(c2, relin_key.base, num_levels)
    IN  [c0 |-> RelinLoop(params, relin_key.keys, c2_decomposed, <<c0, "k0">>, num_levels),
         c1 |-> RelinLoop(params, relin_key.keys, c2_decomposed, <<c1, "k1">>, num_levels)]

\* The three components of the product before relinearization.
BFVTensor(params, ciph1, ciph2) ==
    LET q == params.ciph_modulus
        t == params.plain_modulus
        Scaled(p) == PolyMod(PolyScaleRound(p, t, q), q)
    IN  [c0 |-> Scaled(PolyMultiplyFFT(ciph1.c0, ciph2.c0)),
         c1 |-> Scaled(PolyAdd(PolyMultiplyFFT(ciph1.c0, ciph2.c1),
                               PolyMultiplyFFT(ciph1.c1, ciph2.c0), 0)),
         c2 |-> Scaled(PolyMultiplyFFT(ciph1.c1, ciph2.c1))]

\* BFVEvaluator.multiply
BFVMultiply(params, ciph1, ciph2, relin_key) ==
    LET c == BFVTensor(params, ciph1, ciph2)
    IN  BFVRelinearize(params, relin_key, c.c0, c.c1, c.c2)

(***************************************************************************)
(* BFV sessions.  bfv.stage is the position of the session:                *)
(*   "params" -> "keys" -> "one" -> "two" -> "add" | "multiply"            *)
(* and "decrypted" once the latest ciphertext bfv.out has been decrypted.  *)
(***************************************************************************)
\* Every outcome of sample_triangle(N).
TriangleDraws(N) == Vectors(N, {0 - 1, 0, 1})

\* Every outcome of sample_uniform(0, q, N).
UniformDraws(N, q) == Vectors(N, 0..(q - 1))

\* One outcome of sample_uniform(0, q, N), with entries inside [0, q) that
\* are far from 0 and from q: <<q / 2, q / 3, ...>>.
OneDraw(N, q) == [i \in 1..N |-> q \div (i + 1)]

\* Two outcomes of sample_uniform(0, q, N): OneDraw and
\* <<q - 1 - q / 3, q - 1 - q / 4, ...>>.
TwoDraws(N, q) == {OneDraw(N, q), [i \in 1..N |-> (q - 1) - q \div (i + 2)]}

\* Outcomes of the draws of generate_relin_key: in every round k1 is
\* <<q / 3, q / 4, ...>> and the error vector has all entries equal, taken
\* from the set errors.
RelinDraws(params, errors) ==
    LET N == params.poly_degree
        round == {[k1 |-> [i \in 1..N |-> params.ciph_modulus \div (i + 2)],
                   error |-> [i \in 1..N |-> c]] : c \in errors}
    IN  [1..BFVNumLevels(params) -> round]

\* Plaintext polynomials: coefficients in [0, t).
BFVPlaintexts(params) == Vectors(params.poly_degree, 0..(params.plain_modulus - 1))

NoPoly == <<>>
NoCiphertext == [c0 |-> NoPoly, c1 |-> NoPoly]

\* The outcomes a session takes of sample_uniform for pk_coeff.
BFVUniformPool(rng, params) ==
    CASE rng.uniform = "all" -> UniformDraws(params.poly_degree, params.ciph_modulus)
      [] rng.uniform = "two" -> TwoDraws(params.poly_degree, params.ciph_modulus)
      [] rng.uniform = "one" -> {OneDraw(params.poly_degree, params.ciph_modulus)}

\* The outcomes a session takes of the draws of generate_relin_key.
BFVRelinPool(rng, params) == RelinDraws(params, rng.relin_errors)

\* The session after BFVParameters(N, t, q), before any key exists.  rng
\* names the outcomes the session takes of sample_uniform in key generation
\* and of the error draws of the relinearization key; the other
\* sample_triangle draws are taken in full.
BFVSession(ntq, rng) ==
    [op |-> "bfv", params |-> BFVParameters(ntq[1], ntq[2], ntq[3]),
     rng |-> rng, stage |-> "params", call |-> "none",
     secret_key |-> NoPoly, pk_error |-> NoPoly,
     public_key |-> [p0 |-> NoPoly, p1 |-> NoPoly],
     relin_key |-> [base |-> 0, keys |-> <<>>], relin_errors |-> <<>>,
     m1 |-> NoPoly, u1 |-> NoPoly, ciph1 |-> NoCiphertext,
     m2 |-> NoPoly, u2 |-> NoPoly, ciph2 |-> NoCiphertext,
     out |-> NoCiphertext, decrypted |-> NoPoly]

\* BFVKeyGenerator(params): secret, public and relinearization key.
BFVKeyGen ==
    /\ bfv.op = "bfv" /\ bfv.stage = "params"
    /\ \E s \in TriangleDraws(bfv.params.poly_degree),
          pk_coeff \in BFVUniformPool(bfv.rng, bfv.params),
          pk_error \in TriangleDraws(bfv.params.poly_degree),
          draws \in BFVRelinPool(bfv.rng, bfv.params) :
         bfv' = [bfv EXCEPT !.stage = "keys",
                    !.secret_key = s, !.pk_error = pk_error,
                    !.public_key = BFVPublicKey(bfv.params, s, pk_coeff, pk_error),
                    !.relin_key = BFVRelinKey(bfv.params, s, draws),
                    !.relin_errors = [i \in 1..Len(draws) |-> draws[i].error]]
    /\ UNCHANGED <<util, ckks>>

\* encryptor.encrypt(m1)
BFVEncryptFirst ==
    /\ bfv.op = "bfv" /\ bfv.stage = "keys"
    /\ \E m \in BFVPlaintexts(bfv.params),
          u \in TriangleDraws(bfv.params.poly_degree) :
         LET ciph == BFVEncrypt(bfv.params, bfv.public_key, m, u)
         IN  bfv' = [bfv EXCEPT !.stage = "one", !.call = "encrypt",
                        !.m1 = m, !.u1 = u, !.ciph1 = ciph, !.out = ciph]
    /\ UNCHANGED <<util, ckks>>

\* encryptor.encrypt(m2)
BFVEncryptSecond ==
    /\ bfv.op = "bfv" /\ bfv.stage = "one"
    /\ \E m \in BFVPlaintexts(bfv.params),
          u \in TriangleDraws(bfv.params.poly_degree) :
         LET ciph == BFVEncrypt(bfv.params, bfv.public_key, m, u)
         IN  bfv' = [bfv EXCEPT !.stage = "two",
                        !.m2 = m, !.u2 = u, !.ciph2 = ciph, !.out = ciph]
    /\ UNCHANGED <<util, ckks>>

\* evaluator.add(ciph1, ciph2)
BFVEvalAdd ==
    /\ bfv.op = "bfv" /\ bfv.stage = "two"
    /\ bfv' = [bfv EXCEPT !.stage = "add", !.call = "add",
                  !.out = BFVAdd(bfv.params, bfv.ciph1, bfv.ciph2)]
    /\ UNCHANGED <<util, ckks>>

\* evaluator.multiply(ciph1, ciph2, relin_key)
BFVEvalMultiply ==
    /\ bfv.op = "bfv" /\ bfv.stage = "two"
    /\ bfv' = [bfv EXCEPT !.stage = "multiply", !.call = "multiply",
                  !.out = BFVMultiply(bfv.params, bfv.ciph1, bfv.ciph2, bfv.relin_key)]
    /\ UNCHANGED <<util, ckks>>

\* decryptor.decrypt of the latest ciphertext: the fresh one, the sum or
\* the product.
BFVDecryptOut ==
    /\ bfv.op = "bfv" /\ bfv.stage \in {"one", "add", "multiply"}
    /\ bfv' = [bfv EXCEPT !.stage = "decrypted",
                  !.decrypted = BFVDecrypt(bfv.params, bfv.secret_key, bfv.out)]
    /\ UNCHANGED <<util, ckks>>

\* (N, t, q): the first has the budget N + t < q / (2 t), the second has not.
BFVParams == {<<2, 2, 17>>, <<2, 2, 9>>}

BFVInit ==
    /\ \E ntq \in BFVParams :
         bfv = BFVSession(ntq, [uniform |-> "all", relin_errors |-> {0}])
    /\ util = NoCall
    /\ ckks = NoCall

BFVNext == BFVKeyGen \/ BFVEncryptFirst \/ BFVDecryptOut

SpecBFV == BFVInit /\ [][BFVNext]_vars

\* The latest ciphertext, produced by the call named, has been decrypted.
BFVDecrypted(call) ==
    bfv.op = "bfv" /\ bfv.stage = "decrypted" /\ bfv.call = call

\* The largest magnitude of a coefficient of the polynomial p.
MaxAbs(p) == CHOOSE m \in {Abs(p[i]) : i \in 1..Len(p)} :
                \A i \in 1..Len(p) : Abs(p[i]) <= m

\* The noise budget of a fresh ciphertext: N + t < q / (2 t).
BFVBudget(params) ==
    2 * params.plain_modulus * (params.poly_degree + params.plain_modulus)
        < params.ciph_modulus

\* C1: with N + t < q / (2 t), for every key triple of BFVKeyGenerator, every
\* random vector u of the encryptor and every plaintext m with coefficients
\* in [0, t), decrypt(encrypt(m)) has exactly the coefficients of m.
C1_BFVRoundTrip ==
    (BFVDecrypted("encrypt") /\ BFVBudget(bfv.params)) => bfv.decrypted = bfv.m1

\* A round trip within the budget in which the noise e * u reaches its
\* largest magnitude N and the public key is not trivial.
C1_Witness ==
    /\ BFVDecrypted("encrypt") /\ BFVBudget(bfv.params)
    /\ MaxAbs(PolyMultiplyNaive(bfv.pk_error, bfv.u1, 0)) = bfv.params.poly_degree
    /\ bfv.secret_key = <<1, 0 - 1>>
    /\ bfv.public_key.p1 = <<5, 16>>
    /\ bfv.m1 = <<0, 1>>
    /\ bfv.decrypted = bfv.m1

\* (N, t, q) of the sessions that add.
BFVAddParams == {<<2, 2, 33>>, <<2, 2, 17>>}

BFVAddInit ==
    /\ \E ntq \in BFVAddParams :
         bfv = BFVSession(ntq, [uniform |-> "two", relin_errors |-> {0}])
    /\ util = NoCall
    /\ ckks = NoCall

BFVAddNext ==
    BFVKeyGen \/ BFVEncryptFirst \/ BFVEncryptSecond \/ BFVEvalAdd \/ BFVDecryptOut

SpecBFVAdd == BFVAddInit /\ [][BFVAddNext]_vars

\* The noise budget of a sum of two fresh ciphertexts, whose noise and
\* whose message are up to twice those of one: 2 (N + t) < q / (2 t).
BFVAddBudget(params) ==
    4 * params.plain_modulus * (params.poly_degree + params.plain_modulus)
        < params.ciph_modulus

\* C3: with the noise budget 2 (N + t) < q / (2 t), for plaintexts m1, m2
\* with coefficients in [0, t), decrypt(add(encrypt(m1), encrypt(m2))) is the
\* coefficient-wise sum (m1 + m2) mod t; and, whatever the budget, both
\* components of the sum have their coefficients in [0, q).
C3_BFVAdd ==
    /\ (BFVDecrypted("add") /\ BFVAddBudget(bfv.params)) =>
          bfv.decrypted = PolyAdd(bfv.m1, bfv.m2, bfv.params.plain_modulus)
    /\ (bfv.op = "bfv" /\ bfv.stage = "add") =>
          \A i \in 1..bfv.params.poly_degree :
             /\ bfv.out.c0[i] \in 0..(bfv.params.ciph_modulus - 1)
             /\ bfv.out.c1[i] \in 0..(bfv.params.ciph_modulus - 1)

\* A sum within the budget whose noise e * (u1 + u2) reaches 2 N and whose
\* message sum wraps around t in one coefficient.
C3_Witness ==
    /\ BFVDecrypted("add") /\ BFVAddBudget(bfv.params)
    /\ MaxAbs(PolyMultiplyNaive(bfv.pk_error, PolyAdd(bfv.u1, bfv.u2, 0), 0))
          = 2 * bfv.params.poly_degree
    /\ bfv.m1 = <<1, 1>> /\ bfv.m2 = <<1, 0>>
    /\ bfv.decrypted = <<0, 1>>

\* (N, t, q, error entries of the relinearization key) of the sessions that
\* multiply.
BFVMulParams == {<<2, 2, 2353, {0 - 1, 1}>>, <<2, 2, 97, {1}>>}

BFVMulInit ==
    /\ \E ntq \in BFVMulParams :
         bfv = BFVSession(ntq, [uniform |-> "one", relin_errors |-> ntq[4]])
    /\ util = NoCall
    /\ ckks = NoCall

BFVMulNext ==
    BFVKeyGen \/ BFVEncryptFirst \/ BFVEncryptSecond \/ BFVEvalMultiply \/ BFVDecryptOut

SpecBFVMul == BFVMulInit /\ [][BFVMulNext]_vars

\* Twice a bound on the noise of a relinearized product, with K = N + 1 the
\* largest multiple of q in c0 + c1 s: the terms of the tensor product, the
\* three roundings, the relinearization errors, and the digit base_decompose
\* can lose.
BFVMultiplyNoise2(params) ==
    LET N == params.poly_degree
        t == params.plain_modulus
        K == N + 1
        base == CeilSqrt(params.ciph_modulus)
    IN  4 * N * (t - 1) * (t - 1)
        + 4 * N * N * (t - 1)
        + 4 * N * (t - 1) * (t - 1) * K
        + 2
        + 4 * t * N * N * K
        + (1 + N + N * N)
        + 2 * BFVNumLevels(params) * N * (base - 1)
        + 2 * N * N * base

\* The noise budget of a product: t * noise < q / 2.
BFVMultiplyBudget(params) ==
    params.plain_modulus * BFVMultiplyNoise2(params) < params.ciph_modulus

\* C2: with the noise budget of a product, for plaintexts m1, m2 with
\* coefficients in [0, t), decrypt(multiply(encrypt(m1), encrypt(m2),
\* relin_key)) is the negacyclic product m1.multiply(m2, t).
C2_BFVMultiply ==
    (BFVDecrypted("multiply") /\ BFVMultiplyBudget(bfv.params)) =>
        bfv.decrypted = PolyMultiplyNaive(bfv.m1, bfv.m2, bfv.params.plain_modulus)

\* A product within the budget: x + x^2 = -1 + x wraps around x^N and around
\* t, the square of the secret key is not zero, and c2 has a coefficient
\* whose division by the base 49 comes out one too low.
C2_Witness ==
    /\ BFVDecrypted("multiply") /\ BFVMultiplyBudget(bfv.params)
    /\ bfv.m1 = <<1, 1>> /\ bfv.m2 = <<0, 1>>
    /\ bfv.decrypted = <<1, 1>>
    /\ bfv.secret_key = <<1, 1>>
    /\ bfv.relin_key.base = 49
    /\ \E i \in 1..2 :
          BFVTensor(bfv.params, bfv.ciph1, bfv.ciph2).c2[i] \in LowMultiplesOf49

(***************************************************************************)
(* ckks/ckks_parameters.py, ckks_key_generator.py, ckks_encryptor.py,      *)
(* ckks_decryptor.py                                                       *)
(***************************************************************************)
\* CKKSParameters(N, q, Q, scaling_factor, prime_size=None): the attributes
\* __init__ assigns.  There is no attribute rns among them.
CKKSParameters(poly_degree, ciph_modulus, big_modulus, scaling_factor) ==
    [poly_degree |-> poly_degree,
     ciph_modulus |-> ciph_modulus,
     big_modulus |-> big_modulus,
     scaling_factor |-> scaling_factor,
     num_taylor_iterations |-> 6,
     hamming_weight |-> poly_degree \div 4,
     crt_context |-> "None"]

\* Every outcome of sample_hamming_weight_vector(length, hamming_weight).
HammingWeightDraws(length, hamming_weight) ==
    {sample \in Vectors(length, {0 - 1, 0, 1}) :
        Cardinality({i \in 1..length : sample[i] # 0}) = hamming_weight}

\* generate_public_key without RNS: (-a s + e mod Q, a).
CKKSPublicKey(params, s, pk_coeff, pk_error) ==
    LET mod == params.big_modulus
    IN  [p0 |-> PolyAdd(PolyScalarMultiply(PolyMultiplyNaive(pk_coeff, s, mod),
                                           0 - 1, mod),
                        pk_error, mod),
         p1 |-> pk_coeff]

\* CKKSEncryptor.encrypt with crt_context None.
CKKSEncrypt(params, public_key, plain, random_vec, error1, error2) ==
    LET q == params.ciph_modulus
        c0 == PolyModSmall(
                  PolyAdd(PolyAdd(error1,
                                  PolyMultiplyNaive(public_key.p0, random_vec, q), q),
                          plain.poly, q), q)
        c1 == PolyModSmall(
                  PolyAdd(error2,
                          PolyMultiplyNaive(public_key.p1, random_vec, q), q), q)
    IN  [c0 |-> c0, c1 |-> c1,
         scaling_factor |-> plain.scaling_factor, modulus |-> q]

\* CKKSDecryptor.decrypt(ciphertext) with c2 = None and crt_context None.
CKKSDecrypt(s, ciphertext) ==
    LET message == PolyAdd(ciphertext.c0,
                           PolyMultiplyNaive(ciphertext.c1, s, ciphertext.modulus),
                           ciphertext.modulus)
    IN  [poly |-> PolyModSmall(message, ciphertext.modulus),
         scaling_factor |-> ciphertext.scaling_factor]

(***************************************************************************)
(* CKKS session: CKKSParameters, then CKKSKeyGenerator(params), or a       *)
(* CKKSEncryptor and a CKKSDecryptor over a key pair made outside the key  *)
(* generator, then encrypt and decrypt.                                    *)
(***************************************************************************)
\* (N, q, Q) of the sessions: q = Q, q a proper divisor of Q, and q <= Q
\* that does not divide Q.
CKKSParams == {<<4, 32, 32>>, <<4, 32, 64>>, <<4, 33, 64>>}

\* The scaling factors a plaintext carries.
CKKSScalingFactors == {4, 16}

\* The vectors with all entries equal to one of -1, 0, 1: outcomes of
\* sample_triangle(N).
ConstantTriangleDraws(N) == {[i \in 1..N |-> c] : c \in {0 - 1, 0, 1}}

\* The largest coefficient magnitude below q / 2 - (2 N + 1).
CKKSMessageBound(params) ==
    (params.ciph_modulus - 2 * (2 * params.poly_degree + 1) - 1) \div 2

\* Plaintext polynomials: zero, coefficients of magnitude up to the bound,
\* with both signs, and one polynomial over the bound.
CKKSPlaintextPolys(params) ==
    LET N == params.poly_degree
        B == CKKSMessageBound(params)
    IN  {[i \in 1..N |-> 0],
         [i \in 1..N |-> IF i % 2 = 1 THEN B ELSE 0 - B],
         [i \in 1..N |-> IF i = 1 THEN B + 1 ELSE 1]}

NoPlaintext == [poly |-> <<>>, scaling_factor |-> 0]

NoCKKSCiphertext == [c0 |-> <<>>, c1 |-> <<>>, scaling_factor |-> 0, modulus |-> 0]

CKKSInit ==
    /\ \E nqq \in CKKSParams :
         ckks = [op |-> "ckks",
                 params |-> CKKSParameters(nqq[1], nqq[2], nqq[3], 4),
                 stage |-> "params",
                 secret_key |-> <<>>,
                 public_key |-> [p0 |-> <<>>, p1 |-> <<>>],
                 plain |-> NoPlaintext,
                 ciph |-> NoCKKSCiphertext,
                 decrypted |-> NoPlaintext]
    /\ util = NoCall
    /\ bfv = NoCall

\* CKKSKeyGenerator(params): generate_secret_key draws the key and reads
\* params.rns, which raises AttributeError when params has no such
\* attribute; otherwise the keys are set.
CKKSKeyGen ==
    /\ ckks.op = "ckks" /\ ckks.stage = "params"
    /\ \E key \in HammingWeightDraws(ckks.params.poly_degree,
                                     ckks.params.hamming_weight),
          pk_coeff \in {OneDraw(ckks.params.poly_degree, ckks.params.big_modulus)},
          pk_error \in ConstantTriangleDraws(ckks.params.poly_degree) :
         IF "rns" \notin DOMAIN ckks.params
         THEN ckks' = [ckks EXCEPT !.stage = "AttributeError"]
         ELSE ckks' = [ckks EXCEPT !.stage = "keys", !.secret_key = key,
                          !.public_key =
                              CKKSPublicKey(ckks.params, key, pk_coeff, pk_error)]
    /\ UNCHANGED <<util, bfv>>

\* CKKSEncryptor(params, public_key, secret_key) and
\* CKKSDecryptor(params, secret_key) over a key pair the caller made as
\* generate_secret_key and generate_public_key make it without RNS.
CKKSEncryptorInit ==
    /\ ckks.op = "ckks" /\ ckks.stage = "params"
    /\ \E key \in HammingWeightDraws(ckks.params.poly_degree,
                                     ckks.params.hamming_weight),
          pk_coeff \in {OneDraw(ckks.params.poly_degree, ckks.params.big_modulus)},
          pk_error \in ConstantTriangleDraws(ckks.params.poly_degree) :
         ckks' = [ckks EXCEPT !.stage = "keys", !.secret_key = key,
                     !.public_key =
                         CKKSPublicKey(ckks.params, key, pk_coeff, pk_error)]
    /\ UNCHANGED <<util, bfv>>

\* encryptor.encrypt(plain).
CKKSEncryptPlain ==
    /\ ckks.op = "ckks" /\ ckks.stage = "keys"
    /\ \E poly \in CKKSPlaintextPolys(ckks.params),
          scaling_factor \in CKKSScalingFactors,
          random_vec \in TriangleDraws(ckks.params.poly_degree),
          error1 \in ConstantTriangleDraws(ckks.params.poly_degree),
          error2 \in ConstantTriangleDraws(ckks.params.poly_degree) :
         LET plain == [poly |-> poly, scaling_factor |-> scaling_factor]
         IN  ckks' = [ckks EXCEPT !.stage = "encrypted", !.plain = plain,
                         !.ciph = CKKSEncrypt(ckks.params, ckks.public_key, plain,
                                              random_vec, error1, error2)]
    /\ UNCHANGED <<util, bfv>>

\* decryptor.decrypt(ciphertext).
CKKSDecryptCiph ==
    /\ ckks.op = "ckks" /\ ckks.stage = "encrypted"
    /\ ckks' = [ckks EXCEPT !.stage = "decrypted",
                   !.decrypted = CKKSDecrypt(ckks.secret_key, ckks.ciph)]
    /\ UNCHANGED <<util, bfv>>

CKKSNext == CKKSKeyGen \/ CKKSEncryptorInit \/ CKKSEncryptPlain \/ CKKSDecryptCiph

SpecCKKS == CKKSInit /\ [][CKKSNext]_vars

\* The plaintext of the session is one the statement is about: q <= Q and
\* every coefficient of magnitude below q / 2 - (2 N + 1).
CKKSInBudget ==
    /\ ckks.params.ciph_modulus <= ckks.params.big_modulus
    /\ MaxAbs(ckks.plain.poly) <= CKKSMessageBound(ckks.params)

\* C4: CKKSKeyGenerator(params) yields a key pair for all CKKS parameters
\* with q <= Q, and for every plaintext m with coefficients of magnitude
\* below q / 2 - (2 N + 1), decrypt(encrypt(m)) carries the scaling factor of
\* m and a polynomial whose coefficients differ from those of m by at most
\* N + hamming_weight + 1.
C4_CKKSRoundTrip ==
    /\ ckks.op = "ckks" => ckks.stage # "AttributeError"
    /\ (ckks.op = "ckks" /\ ckks.stage = "decrypted" /\ CKKSInBudget) =>
          /\ ckks.decrypted.scaling_factor = ckks.plain.scaling_factor
          /\ MaxAbs(PolySubtract(ckks.decrypted.poly, ckks.plain.poly, 0))
                <= ckks.params.poly_degree + ckks.params.hamming_weight + 1

(***************************************************************************)
(* Polynomial session: calls of Polynomial.rotate, Polynomial.conjugate    *)
(* and Polynomial.base_decompose on polynomials with integer coefficients. *)
(*   util.a, util.b are the operands, util.arg the argument of the call    *)
(*   and util.out the list of polynomials the calls returned.              *)
(***************************************************************************)
\* Ring degrees of the session.
PolyDegrees == {1, 2, 3, 4, 8}

\* The polynomials c x^j with c a non-zero small coefficient.
PolyMonomials(N) ==
    {[i \in 1..N |-> IF i = j THEN c ELSE 0] : j \in 1..N, c \in SmallCoeffs \ {0}}

\* 1 + 2 x + 3 x^2 + ...: all coefficients differ.
PolyRamp(N) == [i \in 1..N |-> i]

\* Operands of ring degree N: every small polynomial for N <= 2; monomials,
\* the ramp and the polynomial [0, 1, 4, 59] of test_rotate otherwise.
PolyInputs(N) ==
    IF N <= 2 THEN Vectors(N, SmallCoeffs \cup {59})
    ELSE PolyMonomials(N) \cup {PolyRamp(N)}
         \cup (IF N = 4 THEN {<<0, 1, 4, 59>>} ELSE {})

PolyInit ==
    /\ util = [op |-> "poly", call |-> "none", a |-> <<>>, b |-> <<>>,
               arg |-> 0, modulus |-> 0, out |-> <<>>]
    /\ bfv = NoCall
    /\ ckks = NoCall

PolyFresh == util.op = "poly" /\ util.call = "none"

\* a.rotate(r), b.rotate(r), a.add(b).rotate(r) and
\* a.multiply_naive(b).rotate(r).
PolyCallRotate ==
    /\ PolyFresh
    /\ \E N \in PolyDegrees : \E a \in PolyInputs(N), b \in PolyInputs(N),
                                 r \in 0..MaxRot :
         util' = [util EXCEPT !.call = "rotate", !.a = a, !.b = b, !.arg = r,
                     !.out = <<PolyRotate(a, r), PolyRotate(b, r),
                               PolyRotate(PolyAdd(a, b, 0), r),
                               PolyRotate(PolyMultiplyNaive(a, b, 0), r)>>]
    /\ UNCHANGED <<bfv, ckks>>

\* a.conjugate() and a.conjugate().conjugate().
PolyCallConjugate ==
    /\ PolyFresh
    /\ \E N \in PolyDegrees : \E a \in PolyInputs(N) :
         util' = [util EXCEPT !.call = "conjugate", !.a = a,
                     !.out = <<PolyConjugate(a), PolyConjugate(PolyConjugate(a))>>]
    /\ UNCHANGED <<bfv, ckks>>

\* (base, q) of the calls of base_decompose; q is not a power of base.
BaseDecomposeParams == {<<2, 5>>, <<3, 10>>, <<49, 2353>>}

\* Polynomials handed to base_decompose: coefficients -1 and [0, q), in
\* ring degree 2 for the small moduli and 1 for q = 2353.
BaseDecomposeInputs(q) ==
    IF q <= 10 THEN Vectors(2, (0 - 1)..(q - 1)) ELSE Vectors(1, (0 - 1)..(q - 1))

\* a.base_decompose(base, floor(log(q, base)) + 1).
PolyCallBaseDecompose ==
    /\ PolyFresh
    /\ \E bq \in BaseDecomposeParams : \E a \in BaseDecomposeInputs(bq[2]) :
         util' = [util EXCEPT !.call = "base_decompose", !.a = a,
                     !.arg = bq[1], !.modulus = bq[2],
                     !.out = PolyBaseDecompose(a, bq[1], FloorLog(bq[2], bq[1]) + 1)]
    /\ UNCHANGED <<bfv, ckks>>

PolyNext == PolyCallRotate \/ PolyCallConjugate \/ PolyCallBaseDecompose

SpecPoly == PolyInit /\ [][PolyNext]_vars

IsPowerOfTwo(N) == \E k \in 0..N : Pow(2, k) = N

\* The number of coefficients of p of magnitude v.
CountAbs(p, v) == Cardinality({i \in 1..Len(p) : Abs(p[i]) = v})

\* q carries the coefficients of p in some order, up to sign.
IsSignedPermutation(p, q) ==
    /\ Len(q) = Len(p)
    /\ \A i \in 1..Len(p) : CountAbs(q, Abs(p[i])) = CountAbs(p, Abs(p[i]))

\* p with x replaced by x^k in Z[x]/(x^N + 1), k odd: the coefficient of
\* x^j is the coefficient, with the sign of x^(i k), of the one i with
\* i k = j (mod N).
Automorphism(p, k) ==
    LET N == Len(p)
    IN  [j \in 1..N |->
            LET i == CHOOSE h \in 1..N : ((h - 1) * k) % N = j - 1
            IN  IF ((i - 1) * k) % (2 * N) < N THEN p[i] ELSE 0 - p[i]]

\* C12: for a power-of-two N, r >= 0 and integer polynomials a, b,
\* a.rotate(r) is a substituted for x -> x^(5^r), a signed permutation of the
\* coefficients of a, rotate(a + b) = rotate(a) + rotate(b) and
\* rotate(a.multiply_naive(b)) = rotate(a).multiply_naive(rotate(b)).
C12_RotateIsAutomorphism ==
    (util.op = "poly" /\ util.call = "rotate" /\ IsPowerOfTwo(Len(util.a))) =>
        /\ util.out[1] = Automorphism(util.a, Pow(5, util.arg))
        /\ IsSignedPermutation(util.a, util.out[1])
        /\ util.out[3] = PolyAdd(util.out[1], util.out[2], 0)
        /\ util.out[4] = PolyMultiplyNaive(util.out[1], util.out[2], 0)

\* The call of test_rotate: [0, 1, 4, 59].rotate(3) = [0, -1, 4, -59], with
\* the ramp as second operand, which the rotation changes as well.
C12_Witness ==
    /\ util.op = "poly" /\ util.call = "rotate"
    /\ util.a = <<0, 1, 4, 59>> /\ util.arg = 3
    /\ util.out[1] = <<0, 0 - 1, 4, 0 - 59>>
    /\ util.b = <<1, 2, 3, 4>>
    /\ util.out[2] = <<1, 0 - 2, 3, 0 - 4>>

\* C13: for every ring degree N and every polynomial p, p.conjugate() keeps
\* coefficient 0 and has at i (1 <= i < N) the negation of coefficient N - i
\* of p, and p.conjugate().conjugate() has exactly the coefficients of p.
C13_ConjugateInvolution ==
    (util.op = "poly" /\ util.call = "conjugate") =>
        LET N == Len(util.a)
        IN  /\ util.out[1][1] = util.a[1]
            /\ \A i \in 1..(N - 1) : util.out[1][i + 1] = 0 - util.a[N - i + 1]
            /\ util.out[2] = util.a

\* A conjugation that moves and negates: the ramp of ring degree 8.
C13_Witness ==
    /\ util.op = "poly" /\ util.call = "conjugate"
    /\ util.a = PolyRamp(8)
    /\ util.out[1] = <<1, 0 - 8, 0 - 7, 0 - 6, 0 - 5, 0 - 4, 0 - 3, 0 - 2>>
    /\ util.out[2] = util.a

\* Sum over i of base^i d[i], coefficient by coefficient.
RECURSIVE PolyRecompose(_, _, _)
PolyRecompose(d, base, N) ==
    IF d = <<>> THEN [j \in 1..N |-> 0]
    ELSE LET rest == PolyRecompose(Tail(d), base, N)
         IN  [j \in 1..N |-> Head(d)[j] + base * rest[j]]

\* C14: for every polynomial p with integer coefficients, base B >= 2 and
\* modulus q with L = floor(log_B q) + 1, p.base_decompose(B, L) is a list of
\* L polynomials with coefficients in [0, B) whose sum over i of B^i d[i] is
\* congruent to p modulo q, coefficient by coefficient.
C14_BaseDecomposeRecomposes ==
    (util.op = "poly" /\ util.call = "base_decompose") =>
        LET N == Len(util.a)
            B == util.arg
            q == util.modulus
        IN  /\ Len(util.out) = FloorLog(q, B) + 1
            /\ \A i \in 1..Len(util.out) : \A j \in 1..N : util.out[i][j] \in 0..(B - 1)
            /\ PolyMod(PolyRecompose(util.out, B, N), q) = PolyMod(util.a, q)

\* C20: the parameters object has an attribute rns, true exactly when it
\* holds a CRTContext (prime_size not None), so that CKKSKeyGenerator, which
\* branches on params.rns, can be constructed from it.
C20_ParamsExposeRns ==
    ckks.op = "ckks" =>
        /\ "rns" \in DOMAIN ckks.params
        /\ ckks.params.rns = (ckks.params.crt_context # "None")
        /\ ckks.stage # "AttributeError"

(***************************************************************************)
(* ckks/ckks_evaluator.py, non-RNS.  A call returns a Ciphertext record or *)
(* the exception it raised, [error |-> name]; an operation handed an       *)
(* exception instead of a ciphertext hands it on, as the statements after  *)
(* a raise do not run.                                                     *)
(***************************************************************************)
Raised(name) == [error |-> name]

IsRaised(x) == "error" \in DOMAIN x

\* "assert a == b, message % (math.log(a, 2), math.log(b, 2))" with a # b:
\* the message is computed first, and math.log raises ValueError at 0.
AssertMismatch(a, b) ==
    IF a <= 0 \/ b <= 0 THEN Raised("ValueError") ELSE Raised("AssertionError")

\* CKKSKeyGenerator.generate_switching_key without RNS, for the draws
\* swk_coeff and swk_error: (-a s + e + Q new_key mod Q^2, a).
CKKSSwitchingKey(params, s, new_key, swk_coeff, swk_error) ==
    LET mod == params.big_modulus
        mod_squared == mod * mod
        sw0 == PolyAdd(PolyScalarMultiply(PolyMultiplyNaive(swk_coeff, s, mod_squared),
                                          0 - 1, mod_squared),
                       swk_error, mod_squared)
    IN  [p0 |-> PolyAdd(sw0, PolyScalarMultiply(new_key, mod, mod_squared), mod_squared),
         p1 |-> swk_coeff]

\* CKKSEvaluator(params): the attributes the methods read.
CKKSEvaluator(params) ==
    [degree |-> params.poly_degree,
     big_modulus |-> params.big_modulus,
     scaling_factor |-> params.scaling_factor,
     rns |-> params.rns]

EvalAdd(ciph1, ciph2) ==
    IF IsRaised(ciph1) THEN ciph1
    ELSE IF IsRaised(ciph2) THEN ciph2
    ELSE IF ciph1.scaling_factor # ciph2.scaling_factor
    THEN AssertMismatch(ciph1.scaling_factor, ciph2.scaling_factor)
    ELSE IF ciph1.modulus # ciph2.modulus
    THEN AssertMismatch(ciph1.modulus, ciph2.modulus)
    ELSE IF ciph1.modulus = 0 THEN Raised("ZeroDivisionError")
    ELSE LET modulus == ciph1.modulus
         IN  [c0 |-> PolyModSmall(PolyAdd(ciph1.c0, ciph2.c0, modulus), modulus),
              c1 |-> PolyModSmall(PolyAdd(ciph1.c1, ciph2.c1, modulus), modulus),
              scaling_factor |-> ciph1.scaling_factor, modulus |-> modulus]

EvalAddPlain(ciph, plain) ==
    IF IsRaised(ciph) THEN ciph
    ELSE IF ciph.scaling_factor # plain.scaling_factor
    THEN AssertMismatch(ciph.scaling_factor, plain.scaling_factor)
    ELSE IF ciph.modulus = 0 THEN Raised("ZeroDivisionError")
    ELSE [c0 |-> PolyModSmall(PolyAdd(ciph.c0, plain.poly, ciph.modulus), ciph.modulus),
          c1 |-> ciph.c1,
          scaling_factor |-> ciph.scaling_factor, modulus |-> ciph.modulus]

EvalSubtract(ciph1, ciph2) ==
    IF IsRaised(ciph1) THEN ciph1
    ELSE IF IsRaised(ciph2) THEN ciph2
    ELSE IF ciph1.scaling_factor # ciph2.scaling_factor
    THEN AssertMismatch(ciph1.scaling_factor, ciph2.scaling_factor)
    ELSE IF ciph1.modulus # ciph2.modulus
    THEN AssertMismatch(ciph1.modulus, ciph2.modulus)
    ELSE IF ciph1.modulus = 0 THEN Raised("ZeroDivisionError")
    ELSE LET modulus == ciph1.modulus
         IN  [c0 |-> PolyModSmall(PolySubtract(ciph1.c0, ciph2.c0, modulus), modulus),
              c1 |-> PolyModSmall(PolySubtract(ciph1.c1, ciph2.c1, modulus), modulus),
              scaling_factor |-> ciph1.scaling_factor, modulus |-> modulus]

\* One component of relinearize and of switch_key: key_part * poly modulo
\* modulus * Q, mod_small, floor-divided by Q.
EvalKeyProduct(evaluator, key_part, poly, modulus) ==
    LET big == modulus * evaluator.big_modulus
    IN  PolyScalarIntegerDivide(
            PolyModSmall(PolyMultiplyNaive(key_part, poly, big), big),
            evaluator.big_modulus, 0)

EvalRelinearize(evaluator, relin_key, c0, c1, c2, new_scaling_factor, modulus) ==
    IF modulus * evaluator.big_modulus = 0 THEN Raised("ZeroDivisionError")
    ELSE [c0 |-> PolyModSmall(
                    PolyAdd(EvalKeyProduct(evaluator, relin_key.p0, c2, modulus),
                            c0, modulus), modulus),
          c1 |-> PolyModSmall(
                    PolyAdd(EvalKeyProduct(evaluator, relin_key.p1, c2, modulus),
                            c1, modulus), modulus),
          scaling_factor |-> new_scaling_factor, modulus |-> modulus]

EvalMultiply(evaluator, ciph1, ciph2, relin_key) ==
    IF IsRaised(ciph1) THEN ciph1
    ELSE IF IsRaised(ciph2) THEN ciph2
    ELSE IF ciph1.modulus # ciph2.modulus
    THEN AssertMismatch(ciph1.modulus, ciph2.modulus)
    ELSE IF ciph1.modulus = 0 THEN Raised("ZeroDivisionError")
    ELSE LET modulus == ciph1.modulus
             c0 == PolyModSmall(PolyMultiplyNaive(ciph1.c0, ciph2.c0, modulus), modulus)
             c1 == PolyModSmall(
                       PolyAdd(PolyMultiplyNaive(ciph1.c0, ciph2.c1, modulus),
                               PolyMultiplyNaive(ciph1.c1, ciph2.c0, modulus), modulus),
                       modulus)
             c2 == PolyModSmall(PolyMultiplyNaive(ciph1.c1, ciph2.c1, modulus), modulus)
         IN  EvalRelinearize(evaluator, relin_key, c0, c1, c2,
                             ciph1.scaling_factor * ciph2.scaling_factor, modulus)

EvalMultiplyPlain(ciph, plain) ==
    IF IsRaised(ciph) THEN ciph
    ELSE IF ciph.modulus = 0 THEN Raised("ZeroDivisionError")
    ELSE [c0 |-> PolyModSmall(PolyMultiplyNaive(ciph.c0, plain.poly, ciph.modulus),
                              ciph.modulus),
          c1 |-> PolyModSmall(PolyMultiplyNaive(ciph.c1, plain.poly, ciph.modulus),
                              ciph.modulus),
          scaling_factor |-> ciph.scaling_factor * plain.scaling_factor,
          modulus |-> ciph.modulus]

\* rescale as it would be if it divided the coefficients and the scaling
\* factor and left the modulus alone.
EvalRescale_modulus_kept(ciph, division_factor) ==
    IF IsRaised(ciph) THEN ciph
    ELSE IF division_factor = 0 THEN Raised("ZeroDivisionError")
    ELSE [c0 |-> PolyScalarIntegerDivide(ciph.c0, division_factor, 0),
          c1 |-> PolyScalarIntegerDivide(ciph.c1, division_factor, 0),
          scaling_factor |-> ciph.scaling_factor \div division_factor,
          modulus |-> ciph.modulus]

EvalRescale(ciph, division_factor) ==
    IF IsRaised(ciph) THEN ciph
    ELSE IF division_factor = 0 THEN Raised("ZeroDivisionError")
    ELSE [c0 |-> PolyScalarIntegerDivide(ciph.c0, division_factor, 0),
          c1 |-> PolyScalarIntegerDivide(ciph.c1, division_factor, 0),
          scaling_factor |-> ciph.scaling_factor \div division_factor,
          modulus |-> ciph.modulus \div division_factor]

\* lower_modulus as it would be if it left the modulus alone.
EvalLowerModulus_kept(ciph, division_factor) ==
    IF IsRaised(ciph) THEN ciph
    ELSE [c0 |-> ciph.c0, c1 |-> ciph.c1,
          scaling_factor |-> ciph.scaling_factor, modulus |-> ciph.modulus]

EvalLowerModulus(ciph, division_factor) ==
    IF IsRaised(ciph) THEN ciph
    ELSE IF division_factor = 0 \/ ciph.modulus \div division_factor = 0
    THEN Raised("ZeroDivisionError")
    ELSE LET new_modulus == ciph.modulus \div division_factor
         IN  [c0 |-> PolyModSmall(ciph.c0, new_modulus),
              c1 |-> PolyModSmall(ciph.c1, new_modulus),
              scaling_factor |-> ciph.scaling_factor, modulus |-> new_modulus]

EvalSwitchKey(evaluator, ciph, key) ==
    IF IsRaised(ciph) THEN ciph
    ELSE IF ciph.modulus * evaluator.big_modulus = 0 THEN Raised("ZeroDivisionError")
    ELSE [c0 |-> PolyModSmall(
                    PolyAdd(EvalKeyProduct(evaluator, key.p0, ciph.c1, ciph.modulus),
                            ciph.c0, ciph.modulus), ciph.modulus),
          c1 |-> PolyModSmall(EvalKeyProduct(evaluator, key.p1, ciph.c1, ciph.modulus),
                              ciph.modulus),
          scaling_factor |-> ciph.scaling_factor, modulus |-> ciph.modulus]

\* rot_key is the RotationKey [rotation, key].
EvalRotate(evaluator, ciph, rotation, rot_key) ==
    IF IsRaised(ciph) THEN ciph
    ELSE EvalSwitchKey(evaluator,
                       [c0 |-> PolyRotate(ciph.c0, rotation),
                        c1 |-> PolyRotate(ciph.c1, rotation),
                        scaling_factor |-> ciph.scaling_factor,
                        modulus |-> ciph.modulus],
                       rot_key.key)

EvalConjugate(evaluator, ciph, conj_key) ==
    IF IsRaised(ciph) THEN ciph
    ELSE IF ciph.modulus = 0 THEN Raised("ZeroDivisionError")
    ELSE EvalSwitchKey(evaluator,
                       [c0 |-> PolyModSmall(PolyConjugate(ciph.c0), ciph.modulus),
                        c1 |-> PolyModSmall(PolyConjugate(ciph.c1), ciph.modulus),
                        scaling_factor |-> ciph.scaling_factor,
                        modulus |-> ciph.modulus],
                       conj_key)

\* F applied to the value of x, which is computed once however often F
\* reads it: the value an assignment "x = ..." gives the name x.
Bind(x, F(_)) == CHOOSE r \in {F(v) : v \in {x}} : TRUE

\* The first exception among the results of consecutive statements, or the
\* value final if none of them raised.
FirstRaised(results, final) ==
    IF \E i \in 1..Len(results) : IsRaised(results[i])
    THEN results[CHOOSE i \in 1..Len(results) :
                    /\ IsRaised(results[i])
                    /\ \A h \in 1..(i - 1) : ~IsRaised(results[h])]
    ELSE final

\* The Plaintext encoder.encode(values, scaling_factor) returns when the
\* rounded, scaled embedding of values is the vector encoded.  The floating
\* point transform of CKKSEncoder.encode is not computed here: a session
\* takes one vector for the encodings the evaluator asks for.
EncodedPlain(encoded, scaling_factor) ==
    [poly |-> encoded, scaling_factor |-> scaling_factor]

\* create_constant_plain(num / den): int(const * scaling_factor) at x^0, for
\* scaling factors that are powers of two, where the double product
\* truncates to the integer quotient.
EvalConstantPlain(evaluator, num, den) ==
    [poly |-> [i \in 1..evaluator.degree |->
                  IF i = 1 THEN (num * evaluator.scaling_factor) \div den ELSE 0],
     scaling_factor |-> evaluator.scaling_factor]

\* int(sqrt(n))
FloorSqrt(n) == CHOOSE r \in 0..n : r * r <= n /\ n < (r + 1) * (r + 1)

\* rot_keys[rotation], a dict lookup, and rotate with that key.
RotKeyLookup(evaluator, ciph, rotation, rot_keys) ==
    IF IsRaised(ciph) THEN ciph
    ELSE IF rotation \notin DOMAIN rot_keys THEN Raised("KeyError")
    ELSE EvalRotate(evaluator, ciph, rotation, rot_keys[rotation])

RECURSIVE MatrixInnerSum(_, _, _)
\* inner_sum after i rounds of the inner loop of multiply_matrix.
MatrixInnerSum(ciph_rots, diagonal_plain, i) ==
    IF i = 1 THEN EvalMultiplyPlain(ciph_rots[1], diagonal_plain)
    ELSE Bind(MatrixInnerSum(ciph_rots, diagonal_plain, i - 1), LAMBDA inner_sum :
         Bind(EvalMultiplyPlain(ciph_rots[i], diagonal_plain), LAMBDA dot_prod :
         EvalAdd(inner_sum, dot_prod)))

RECURSIVE MatrixOuterSum(_, _, _, _, _)
\* outer_sum after j rounds of the outer loop of multiply_matrix, in each of
\* which the inner loop gives inner_sum.
MatrixOuterSum(evaluator, inner_sum, matrix_len_factor1, rot_keys, j) ==
    IF j = 1 THEN RotKeyLookup(evaluator, inner_sum, 0, rot_keys)
    ELSE Bind(MatrixOuterSum(evaluator, inner_sum, matrix_len_factor1, rot_keys, j - 1),
              LAMBDA outer_sum :
         Bind(RotKeyLookup(evaluator, inner_sum, matrix_len_factor1 * (j - 1), rot_keys),
              LAMBDA rotated_sum :
         EvalAdd(outer_sum, rotated_sum)))

\* multiply_matrix for a matrix of matrix_len rows whose diagonals encode
\* to the vector encoded.
EvalMultiplyMatrix(evaluator, ciph, matrix_len, rot_keys, encoded) ==
    IF IsRaised(ciph) THEN ciph
    ELSE
    LET root == FloorSqrt(matrix_len)
        matrix_len_factor1 == IF matrix_len # root * root
                              THEN FloorSqrt(2 * matrix_len) ELSE root
        matrix_len_factor2 == matrix_len \div matrix_len_factor1
        diagonal_plain == EncodedPlain(encoded, evaluator.scaling_factor)
    IN  Bind(Strict([i \in 1..matrix_len_factor1 |->
                        IF i = 1 THEN ciph
                        ELSE RotKeyLookup(evaluator, ciph, i - 1, rot_keys)]),
             LAMBDA ciph_rots :
        FirstRaised(ciph_rots,
            Bind(MatrixInnerSum(ciph_rots, diagonal_plain, matrix_len_factor1),
                 LAMBDA inner_sum :
            Bind(MatrixOuterSum(evaluator, inner_sum, matrix_len_factor1, rot_keys,
                                matrix_len_factor2),
                 LAMBDA outer_sum :
            EvalRescale(outer_sum, evaluator.scaling_factor)))))

\* One of the two ciphertexts of coeff_to_slot.
EvalCoeffToSlotHalf(evaluator, ciph, rot_keys, conj_key, encoded) ==
    LET num_slots == evaluator.degree \div 2
        constant == EvalConstantPlain(evaluator, 1, evaluator.degree)
    IN  Bind(EvalMultiplyMatrix(evaluator, ciph, num_slots, rot_keys, encoded),
             LAMBDA s1 :
        Bind(EvalConjugate(evaluator, ciph, conj_key), LAMBDA conjugated :
        Bind(EvalMultiplyMatrix(evaluator, conjugated, num_slots, rot_keys, encoded),
             LAMBDA s2 :
        Bind(EvalAdd(s1, s2), LAMBDA sum :
        Bind(EvalMultiplyPlain(sum, constant), LAMBDA product :
        FirstRaised(<<s1, s2>>,
                    EvalRescale(product, evaluator.scaling_factor)))))))

\* coeff_to_slot: the pair ciph0, ciph1, or the exception raised.
EvalCoeffToSlot(evaluator, ciph, rot_keys, conj_key, encoded) ==
    Bind(EvalCoeffToSlotHalf(evaluator, ciph, rot_keys, conj_key, encoded),
         LAMBDA ciph0 :
    Bind(EvalCoeffToSlotHalf(evaluator, ciph, rot_keys, conj_key, encoded),
         LAMBDA ciph1 :
    FirstRaised(<<ciph0, ciph1>>, [ciph0 |-> ciph0, ciph1 |-> ciph1])))

EvalSlotToCoeff(evaluator, ciph0, ciph1, rot_keys, encoded) ==
    LET num_slots == evaluator.degree \div 2
    IN  Bind(EvalMultiplyMatrix(evaluator, ciph0, num_slots, rot_keys, encoded),
             LAMBDA s1 :
        Bind(EvalMultiplyMatrix(evaluator, ciph1, num_slots, rot_keys, encoded),
             LAMBDA s2 :
        FirstRaised(<<s1, s2>>, EvalAdd(s1, s2))))

\* "x = multiply_plain(add_plain(ciph, a), b); x = rescale(x, scaling_factor)"
EvalTaylorTerm(evaluator, ciph, a, num, den) ==
    Bind(EvalAddPlain(ciph, EvalConstantPlain(evaluator, a, 1)), LAMBDA sum :
    Bind(EvalMultiplyPlain(sum, EvalConstantPlain(evaluator, num, den)),
         LAMBDA product :
    EvalRescale(product, evaluator.scaling_factor)))

\* "x = multiply(a, b, relin_key); x = rescale(x, scaling_factor)"
EvalMultiplyRescale(evaluator, a, b, relin_key) ==
    Bind(EvalMultiply(evaluator, a, b, relin_key), LAMBDA product :
    EvalRescale(product, evaluator.scaling_factor))

EvalExpTaylor(evaluator, ciph, relin_key) ==
    LET sf == evaluator.scaling_factor
    IN  Bind(EvalMultiplyRescale(evaluator, ciph, ciph, relin_key), LAMBDA ciph2 :
        Bind(EvalMultiplyRescale(evaluator, ciph2, ciph2, relin_key), LAMBDA ciph4 :
        Bind(EvalTaylorTerm(evaluator, ciph, 1, 1, 1), LAMBDA ciph01 :
        Bind(EvalTaylorTerm(evaluator, ciph, 3, 1, 6), LAMBDA term3 :
        Bind(EvalMultiplyRescale(evaluator, term3, ciph2, relin_key), LAMBDA ciph23a :
        Bind(EvalLowerModulus(ciph01, sf), LAMBDA ciph01low :
        Bind(EvalAdd(ciph23a, ciph01low), LAMBDA ciph23 :
        Bind(EvalTaylorTerm(evaluator, ciph, 5, 1, 120), LAMBDA ciph45 :
        Bind(EvalTaylorTerm(evaluator, ciph, 7, 1, 5040), LAMBDA term7 :
        Bind(EvalMultiplyRescale(evaluator, term7, ciph2, relin_key), LAMBDA ciph67a :
        Bind(EvalLowerModulus(ciph45, sf), LAMBDA ciph45low :
        Bind(EvalAdd(ciph67a, ciph45low), LAMBDA ciph67 :
        Bind(EvalMultiplyRescale(evaluator, ciph67, ciph4, relin_key), LAMBDA ciph47 :
        Bind(EvalLowerModulus(ciph23, sf), LAMBDA ciph23low :
        FirstRaised(<<ciph2, ciph4, ciph01, ciph23a, ciph01low, ciph23, ciph45,
                      ciph67a, ciph45low, ciph67, ciph47, ciph23low>>,
                    EvalAdd(ciph47, ciph23low))))))))))))))))

RECURSIVE EvalSquarings(_, _, _, _)
\* "for _ in range(num_iterations): ciph = rescale(multiply(ciph, ciph))"
EvalSquarings(evaluator, ciph, relin_key, num_iterations) ==
    IF num_iterations = 0 THEN ciph
    ELSE Bind(EvalMultiplyRescale(evaluator, ciph, ciph, relin_key), LAMBDA squared :
         EvalSquarings(evaluator, squared, relin_key, num_iterations - 1))

EvalExp(evaluator, ciph, relin_key, encoded, num_iterations) ==
    LET const_plain == EncodedPlain(encoded, evaluator.scaling_factor)
    IN  Bind(EvalMultiplyPlain(ciph, const_plain), LAMBDA product :
        Bind(EvalRescale(product, evaluator.scaling_factor), LAMBDA scaled :
        Bind(EvalExpTaylor(evaluator, scaled, relin_key), LAMBDA taylor :
        EvalSquarings(evaluator, taylor, relin_key, num_iterations))))

\* The statements of bootstrap from "Compute sine" to slot_to_coeff.
EvalBootstrapSine(evaluator, ciph_exp0, ciph_neg_exp0, ciph_exp1, ciph_neg_exp1, rot_keys, encoded) ==
    LET sf == evaluator.scaling_factor
        plain_const == EncodedPlain(encoded, sf)
    IN  Bind(EvalSubtract(ciph_exp0, ciph_neg_exp0), LAMBDA ciph_sin0 :
        Bind(EvalSubtract(ciph_exp1, ciph_neg_exp1), LAMBDA ciph_sin1 :
        Bind(EvalMultiplyPlain(ciph_sin0, plain_const), LAMBDA product0 :
        Bind(EvalMultiplyPlain(ciph_sin1, plain_const), LAMBDA product1 :
        Bind(EvalRescale(product0, sf), LAMBDA ciph0 :
        Bind(EvalRescale(product1, sf), LAMBDA ciph1 :
        FirstRaised(<<ciph_sin0, ciph_sin1, product0, product1, ciph0, ciph1>>,
                    EvalSlotToCoeff(evaluator, ciph0, ciph1, rot_keys, encoded))))))))

\* The statements of bootstrap between raise_modulus and the reset of the
\* scaling factor, over the raised evaluator and ciphertext: the refreshed
\* ciphertext, or the exception raised.
EvalBootstrapCircuit(evaluator, ciph, rot_keys, conj_key, relin_key, encoded, num_iterations) ==
    Bind(EvalCoeffToSlot(evaluator, ciph, rot_keys, conj_key, encoded), LAMBDA slots :
    IF IsRaised(slots) THEN slots
    ELSE
    Bind(EvalExp(evaluator, slots.ciph0, relin_key, encoded, num_iterations),
         LAMBDA ciph_exp0 :
    Bind(EvalConjugate(evaluator, ciph_exp0, conj_key), LAMBDA ciph_neg_exp0 :
    Bind(EvalExp(evaluator, slots.ciph1, relin_key, encoded, num_iterations),
         LAMBDA ciph_exp1 :
    Bind(EvalConjugate(evaluator, ciph_exp1, conj_key), LAMBDA ciph_neg_exp1 :
    FirstRaised(<<ciph_exp0, ciph_neg_exp0, ciph_exp1, ciph_neg_exp1>>,
                EvalBootstrapSine(evaluator, ciph_exp0, ciph_neg_exp0, ciph_exp1,
                                  ciph_neg_exp1, rot_keys, encoded)))))))

\* generate_relin_key: the switching key for s^2 mod Q.
CKKSRelinKey(params, s, swk_coeff, swk_error) ==
    CKKSSwitchingKey(params, s, PolyMultiplyNaive(s, s, params.big_modulus),
                     swk_coeff, swk_error)

\* generate_rot_key(rotation): RotationKey(rotation, switching key for
\* s.rotate(rotation)).
CKKSRotKey(params, s, rotation, swk_coeff, swk_error) ==
    [rotation |-> rotation,
     key |-> CKKSSwitchingKey(params, s, PolyRotate(s, rotation), swk_coeff, swk_error)]

\* generate_conj_key: the switching key for s.conjugate().
CKKSConjKey(params, s, swk_coeff, swk_error) ==
    CKKSSwitchingKey(params, s, PolyConjugate(s), swk_coeff, swk_error)

(***************************************************************************)
(* Evaluator session: parameters on which the caller has set rns = False,  *)
(* keys, a CKKSEvaluator, two ciphertexts and a plaintext, then a bounded  *)
(* sequence of evaluator calls on the ciphertext ciph, whose results the   *)
(* caller may keep as the next operand.                                    *)
(***************************************************************************)
\* Evaluator calls in one session.
MaxEvalOps == 2

\* (N, q, Q, scaling factor) of the sessions.
EvalParams == {<<4, 32, 64, 4>>, <<4, 8, 256, 2>>}

\* The rotations the caller generated rotation keys for.
EvalRotationSets == {{0, 1}, {0}}

\* Division factors of rescale and lower_modulus.
EvalDivisors == {1, 2}

\* CKKSParameters(N, q, Q, scaling_factor, taylor_iterations=0,
\* prime_size=None) followed by "params.rns = False".
EvalParameters(nqqs) ==
    [rns |-> FALSE] @@
    [CKKSParameters(nqqs[1], nqqs[2], nqqs[3], nqqs[4])
         EXCEPT !.num_taylor_iterations = 0]

\* The state of a session over params with secret key s, rotation keys for
\* rotations, and a plaintext of the given scaling factor; the ciphertexts
\* encrypt the encoding of scale params.scaling_factor.
EvalSession(op, params, s, rotations, plain_scaling_factor) ==
    LET N == params.poly_degree
        swk_coeff == OneDraw(N, params.big_modulus * params.big_modulus)
        swk_error == [i \in 1..N |-> 1]
        public_key == CKKSPublicKey(params, s, OneDraw(N, params.big_modulus),
                                    [i \in 1..N |-> 0 - 1])
        encoded == PolyRamp(N)
        fresh == EncodedPlain(encoded, params.scaling_factor)
    IN  [op |-> op,
         params |-> params,
         evaluator |-> CKKSEvaluator(params),
         secret_key |-> s,
         relin_key |-> CKKSRelinKey(params, s, swk_coeff, swk_error),
         rot_keys |-> [r \in rotations |->
                          CKKSRotKey(params, s, r, swk_coeff, swk_error)],
         conj_key |-> CKKSConjKey(params, s, swk_coeff, swk_error),
         encoded |-> encoded,
         plain |-> EncodedPlain(encoded, plain_scaling_factor),
         ciph |-> CKKSEncrypt(params, public_key, fresh,
                              [i \in 1..N |-> IF i = 1 THEN 1 ELSE 0],
                              [i \in 1..N |-> 1], [i \in 1..N |-> 0]),
         other |-> CKKSEncrypt(params, public_key, fresh,
                               [i \in 1..N |-> IF i = 2 THEN 0 - 1 ELSE 0],
                               [i \in 1..N |-> 0], [i \in 1..N |-> 1]),
         call |-> "none",
         arg |-> 0,
         pre |-> [ciph |-> NoCKKSCiphertext, other |-> NoCKKSCiphertext,
                  scaling_factor |-> 0],
         out |-> NoCKKSCiphertext,
         steps |-> 0]

EvalInit ==
    /\ \E nqqs \in EvalParams, rotations \in EvalRotationSets,
          times \in {1, 2} :
         LET params == EvalParameters(nqqs)
         IN  ckks = EvalSession("eval", params,
                                [i \in 1..params.poly_degree |->
                                    IF i = 2 THEN 0 - 1 ELSE 0],
                                rotations, times * params.scaling_factor)
    /\ util = NoCall
    /\ bfv = NoCall

EvalReady == ckks.op = "eval" /\ ckks.steps < MaxEvalOps

\* The session after a call on ckks.ciph and operand2 that returned result.
EvalReturn(call, arg, operand2, result) ==
    [ckks EXCEPT !.call = call, !.arg = arg,
                 !.pre = [ciph |-> ckks.ciph, other |-> operand2,
                          scaling_factor |-> ckks.evaluator.scaling_factor],
                 !.out = result, !.steps = @ + 1]

EvalCallAdd ==
    /\ EvalReady
    /\ ckks' = EvalReturn("add", 0, ckks.other, EvalAdd(ckks.ciph, ckks.other))
    /\ UNCHANGED <<util, bfv>>

EvalCallSubtract ==
    /\ EvalReady
    /\ ckks' = EvalReturn("subtract", 0, ckks.other,
                          EvalSubtract(ckks.ciph, ckks.other))
    /\ UNCHANGED <<util, bfv>>

EvalCallAddPlain ==
    /\ EvalReady
    /\ ckks' = EvalReturn("add_plain", 0, ckks.plain,
                          EvalAddPlain(ckks.ciph, ckks.plain))
    /\ UNCHANGED <<util, bfv>>

EvalCallMultiply ==
    /\ EvalReady
    /\ ckks' = EvalReturn("multiply", 0, ckks.other,
                          EvalMultiply(ckks.evaluator, ckks.ciph, ckks.other,
                                       ckks.relin_key))
    /\ UNCHANGED <<util, bfv>>

EvalCallMultiplyPlain ==
    /\ EvalReady
    /\ ckks' = EvalReturn("multiply_plain", 0, ckks.plain,
                          EvalMultiplyPlain(ckks.ciph, ckks.plain))
    /\ UNCHANGED <<util, bfv>>

\* relinearize(relin_key, c0, c1, c2, new_scaling_factor, modulus) on the
\* components of ciph, with other.c1 as c2.
EvalCallRelinearize ==
    /\ EvalReady
    /\ ckks' = EvalReturn("relinearize", 0, ckks.ciph,
                          EvalRelinearize(ckks.evaluator, ckks.relin_key,
                                          ckks.ciph.c0, ckks.ciph.c1, ckks.other.c1,
                                          ckks.ciph.scaling_factor, ckks.ciph.modulus))
    /\ UNCHANGED <<util, bfv>>

EvalCallRescale ==
    /\ EvalReady
    /\ \E division_factor \in EvalDivisors :
         ckks' = EvalReturn("rescale", division_factor, ckks.ciph,
                            EvalRescale(ckks.ciph, division_factor))
    /\ UNCHANGED <<util, bfv>>

EvalCallLowerModulus ==
    /\ EvalReady
    /\ \E division_factor \in EvalDivisors :
         ckks' = EvalReturn("lower_modulus", division_factor, ckks.ciph,
                            EvalLowerModulus(ckks.ciph, division_factor))
    /\ UNCHANGED <<util, bfv>>

EvalCallSwitchKey ==
    /\ EvalReady
    /\ ckks' = EvalReturn("switch_key", 0, ckks.ciph,
                          EvalSwitchKey(ckks.evaluator, ckks.ciph, ckks.conj_key))
    /\ UNCHANGED <<util, bfv>>

EvalCallRotate ==
    /\ EvalReady
    /\ \E rotation \in DOMAIN ckks.rot_keys :
         ckks' = EvalReturn("rotate", rotation, ckks.ciph,
                            EvalRotate(ckks.evaluator, ckks.ciph, rotation,
                                       ckks.rot_keys[rotation]))
    /\ UNCHANGED <<util, bfv>>

EvalCallConjugate ==
    /\ EvalReady
    /\ ckks' = EvalReturn("conjugate", 0, ckks.ciph,
                          EvalConjugate(ckks.evaluator, ckks.ciph, ckks.conj_key))
    /\ UNCHANGED <<util, bfv>>

\* multiply_matrix(ciph, matrix, rot_keys, encoder) for a matrix of N / 2
\* rows.
EvalCallMultiplyMatrix ==
    /\ EvalReady
    /\ ckks' = EvalReturn("multiply_matrix", 0, ckks.ciph,
                          EvalMultiplyMatrix(ckks.evaluator, ckks.ciph,
                                             ckks.params.poly_degree \div 2,
                                             ckks.rot_keys, ckks.encoded))
    /\ UNCHANGED <<util, bfv>>

\* raise_modulus(ciph): sets evaluator.scaling_factor and ciph.scaling_factor
\* to ciph.modulus and ciph.modulus to Q, in place, and returns None.
EvalCallRaiseModulus ==
    /\ EvalReady
    /\ ckks' = [EvalReturn("raise_modulus", 0, ckks.ciph, NoCKKSCiphertext)
                   EXCEPT !.evaluator.scaling_factor = ckks.ciph.modulus,
                          !.ciph.scaling_factor = ckks.ciph.modulus,
                          !.ciph.modulus = ckks.evaluator.big_modulus]
    /\ UNCHANGED <<util, bfv>>

\* The caller's "ciph = result" after a call that returned a ciphertext.
EvalKeep ==
    /\ ckks.op = "eval"
    /\ ckks.call \notin {"none", "raise_modulus"}
    /\ ~IsRaised(ckks.out)
    /\ ckks.out # ckks.ciph
    /\ ckks' = [ckks EXCEPT !.ciph = ckks.out]
    /\ UNCHANGED <<util, bfv>>

EvalNext ==
    \/ EvalCallAdd \/ EvalCallSubtract \/ EvalCallAddPlain
    \/ EvalCallMultiply \/ EvalCallMultiplyPlain \/ EvalCallRelinearize
    \/ EvalCallRescale \/ EvalCallLowerModulus \/ EvalCallSwitchKey
    \/ EvalCallRotate \/ EvalCallConjugate \/ EvalCallMultiplyMatrix
    \/ EvalCallRaiseModulus \/ EvalKeep

SpecCKKSEval == EvalInit /\ [][EvalNext]_vars

\* The calls with two ciphertext operands.
EvalBinaryCalls == {"add", "subtract", "multiply"}

C16_MismatchRejected ==
    (/\ ckks.op = "eval"
     /\ ckks.call \in {"add", "subtract", "add_plain", "multiply_plain"}
     /\ ckks.pre.ciph.scaling_factor # ckks.pre.other.scaling_factor)
        => IsRaised(ckks.out)

\* bootstrap(ciph, rot_keys, conj_key, relin_key, encoder): the evaluator and
\* the argument object after the call, and what the call returned or raised.
\* raise_modulus writes the argument and the evaluator in place; old_ciph is
\* the argument object; the scaling factor is reset by the statements after
\* slot_to_coeff, which an exception skips.
EvalBootstrap(evaluator, ciph, rot_keys, conj_key, relin_key, encoded, num_iterations) ==
    LET old_scaling_factor == evaluator.scaling_factor
    IN  Bind([evaluator EXCEPT !.scaling_factor = ciph.modulus],
             LAMBDA raised_evaluator :
        Bind([ciph EXCEPT !.scaling_factor = ciph.modulus,
                          !.modulus = evaluator.big_modulus],
             LAMBDA raised_ciph :
        Bind(EvalBootstrapCircuit(raised_evaluator, raised_ciph, rot_keys, conj_key,
                                  relin_key, encoded, num_iterations),
             LAMBDA refreshed :
        IF IsRaised(refreshed)
        THEN [evaluator |-> raised_evaluator, ciph |-> raised_ciph,
              result |-> refreshed]
        ELSE [evaluator |-> evaluator, ciph |-> raised_ciph,
              result |-> [old_ciph |-> raised_ciph,
                          ciph |-> [refreshed EXCEPT
                                       !.scaling_factor = old_scaling_factor]]])))

(***************************************************************************)
(* Bootstrapping session: parameters with rns = False set by the caller,   *)
(* keys, an evaluator and a fresh ciphertext, then calls of bootstrap on   *)
(* that ciphertext.                                                        *)
(***************************************************************************)
\* Calls of bootstrap in one session.
MaxBootstraps == 1

\* (N, q, Q, scaling factor): Q = q^8 leaves bootstrap the eight rescalings
\* by q it makes with taylor_iterations = 0; the others run out of modulus.
BootParams == {<<4, 2, 256, 4>>, <<4, 2, 256, 2>>, <<4, 32, 64, 4>>}

\* The rotations with a rotation key: all bootstrap needs at N = 4, or fewer.
BootRotationSets == {{0, 1}, {0}, {}}

BootInit ==
    /\ \E nqqs \in BootParams, rotations \in BootRotationSets,
          s \in HammingWeightDraws(4, 1) :
         ckks = EvalSession("boot", EvalParameters(nqqs), s, rotations, nqqs[4])
    /\ util = NoCall
    /\ bfv = NoCall

BootCallBootstrap ==
    /\ ckks.op = "boot" /\ ckks.steps < MaxBootstraps
    /\ LET after == EvalBootstrap(ckks.evaluator, ckks.ciph, ckks.rot_keys,
                                  ckks.conj_key, ckks.relin_key, ckks.encoded,
                                  ckks.params.num_taylor_iterations)
       IN  ckks' = [EvalReturn("bootstrap", 0, ckks.ciph, after.result)
                       EXCEPT !.evaluator = after.evaluator,
                              !.ciph = after.ciph]
    /\ UNCHANGED <<util, bfv>>

BootNext == BootCallBootstrap

SpecCKKSBoot == BootInit /\ [][BootNext]_vars

\* C17: on every exit path of bootstrap, a return or a failure part-way,
\* evaluator.scaling_factor equals its value before the call, and on success
\* the refreshed ciphertext returned carries that value as its scaling
\* factor.
C17_BootstrapRestoresScalingFactor ==
    (ckks.op = "boot" /\ ckks.call = "bootstrap") =>
        /\ ckks.evaluator.scaling_factor = ckks.pre.scaling_factor
        /\ ~IsRaised(ckks.out) =>
               ckks.out.ciph.scaling_factor = ckks.pre.scaling_factor

\* C18: the first element of the pair bootstrap returns has the components
\* c0 and c1, the modulus q and the scaling factor its argument had before
\* raise_modulus was applied.
C18_BootstrapReturnsPreRaise ==
    (ckks.op = "boot" /\ ckks.call = "bootstrap" /\ ~IsRaised(ckks.out)) =>
        ckks.out.old_ciph = ckks.pre.ciph

(***************************************************************************)
(* Encoder session: a CKKSEncoder over parameters with or without a CRT    *)
(* context, on which the caller has set rns accordingly; encode makes a    *)
(* Plaintext object and decode is called on that object.  The floating     *)
(* point embedding is not computed: encode starts from the rounded scaled  *)
(* vector it stores, and decode ends with the quotients it hands to        *)
(* fft.embedding, kept as numerators over the scaling factor.              *)
(***************************************************************************)
\* Calls of decode on one plaintext.
MaxDecodes == 2

\* The number of primes CKKSParameters asks of its CRTContext, for powers of
\* two N and Q: 1 + int(1 + log2 N + 4 log2 Q / prime_size).
CKKSNumPrimes(poly_degree, big_modulus, prime_size) ==
    1 + (1 + Log2(poly_degree) + (4 * Log2(big_modulus)) \div prime_size)

\* CKKSParameters(N, q, Q, scaling_factor, prime_size=...) followed by
\* "params.rns = ..."; prime_size 0 stands for None.
EncoderParameters(poly_degree, ciph_modulus, big_modulus, scaling_factor, prime_size) ==
    [rns |-> prime_size # 0] @@
    [CKKSParameters(poly_degree, ciph_modulus, big_modulus, scaling_factor)
        EXCEPT !.crt_context =
            IF prime_size = 0 THEN "None"
            ELSE CRTContext(CKKSNumPrimes(poly_degree, big_modulus, prime_size),
                            prime_size, poly_degree)]

\* (N, q, Q, prime_size) of the sessions.
EncoderParams == {<<2, 2, 2, 4>>, <<2, 2, 2, 0>>}

\* The rounded scaled vectors encode stores.
EncoderMessages(N) == Vectors(N, (0 - 2)..3)

NoEncoderPoly == [rep |-> "None"]

EncoderInit ==
    /\ \E nqqp \in EncoderParams :
         ckks = [op |-> "encoder",
                 params |-> EncoderParameters(nqqp[1], nqqp[2], nqqp[3], 4, nqqp[4]),
                 plain |-> [poly |-> NoEncoderPoly, scaling_factor |-> 0],
                 call |-> "none",
                 pre |-> [poly |-> NoEncoderPoly, scaling_factor |-> 0],
                 out |-> NoEncoderPoly,
                 steps |-> 0]
    /\ util = NoCall
    /\ bfv = NoCall

\* plain = encoder.encode(values, scaling_factor), where message is the
\* vector of int(to_scale * scaling_factor + 0.5).
EncoderEncode ==
    /\ ckks.op = "encoder" /\ ckks.call = "none"
    /\ \E message \in EncoderMessages(ckks.params.poly_degree),
          scaling_factor \in {ckks.params.scaling_factor} :
         LET poly == IF ckks.params.rns
                     THEN [rep |-> "DCRTPolynomial",
                           polys |-> DCRTPolynomial(message, ckks.params.crt_context)]
                     ELSE [rep |-> "Polynomial", coeffs |-> message]
             plain == [poly |-> poly, scaling_factor |-> scaling_factor]
         IN  ckks' = [ckks EXCEPT !.call = "encode", !.plain = plain,
                                  !.pre = plain, !.out = poly]
    /\ UNCHANGED <<util, bfv>>

\* The quotients decode passes to fft.embedding, for the coefficients coeffs.
DecodeMessage(coeffs, scaling_factor) ==
    LET num_values == Len(coeffs) \div 2
    IN  [rep |-> "message",
         real |-> [i \in 1..num_values |-> coeffs[i]],
         imag |-> [i \in 1..num_values |-> coeffs[i + num_values]],
         over |-> scaling_factor]

\* encoder.decode(plain): in RNS mode "plain.poly = plain.poly.reconstruct()"
\* writes the Polynomial into the argument, and raises AttributeError when
\* plain.poly is a Polynomial already.
EncoderDecode ==
    /\ ckks.op = "encoder" /\ ckks.call # "none" /\ ckks.steps < MaxDecodes
    /\ LET plain == ckks.plain
           after ==
               IF ~ckks.params.rns THEN plain
               ELSE IF plain.poly.rep # "DCRTPolynomial" THEN plain
               ELSE [plain EXCEPT !.poly =
                        [rep |-> "Polynomial",
                         coeffs |-> DcrtReconstruct(plain.poly.polys,
                                                    ckks.params.crt_context)]]
           result ==
               IF ckks.params.rns /\ plain.poly.rep # "DCRTPolynomial"
               THEN Raised("AttributeError")
               ELSE DecodeMessage(after.poly.coeffs, after.scaling_factor)
       IN  ckks' = [ckks EXCEPT !.call = "decode", !.pre = plain,
                                !.plain = after, !.out = result, !.steps = @ + 1]
    /\ UNCHANGED <<util, bfv>>

EncoderNext == EncoderEncode \/ EncoderDecode

SpecCKKSEncoder == EncoderInit /\ [][EncoderNext]_vars

\* C19: a public operation other than raise_modulus and bootstrap leaves the
\* objects passed to it unchanged; in particular CKKSEncoder.decode(plain)
\* leaves plain.poly unchanged, its coefficients and its representation, in
\* RNS and non-RNS mode.
C19_DecodeLeavesPlaintext ==
    (ckks.op = "encoder" /\ ckks.call = "decode") => ckks.plain = ckks.pre

(***************************************************************************)
(* Hamming-weight sampler session (util/random_sample.py): one call of     *)
(* sample_hamming_weight_vector(length, hamming_weight), one action per    *)
(* iteration of its while loop, with the draws of random.randrange and     *)
(* random.randint as the inputs of the iteration.                          *)
(***************************************************************************)
\* The longest vector asked of the sampler.
MaxHammingLength == 3

\* The number of nonzero entries of a vector.
NonZeroCount(sample) == Cardinality({i \in 1..Len(sample) : sample[i] # 0})

\* The loop body without its test of sample[index].
HammingAssign_unguarded(sample, total_weight, index, r) ==
    [sample |-> [sample EXCEPT ![index + 1] = IF r = 0 THEN 0 - 1 ELSE 1],
     total_weight |-> total_weight + 1]

\* "if sample[index] == 0: ... total_weight += 1" (index counted from 0), for
\* the draw r of random.randint(0, 1).
HammingAssign(sample, total_weight, index, r) ==
    IF sample[index + 1] = 0
    THEN [sample |-> [sample EXCEPT ![index + 1] = IF r = 0 THEN 0 - 1 ELSE 1],
          total_weight |-> total_weight + 1]
    ELSE [sample |-> sample, total_weight |-> total_weight]

HammingInit ==
    /\ \E length \in 0..MaxHammingLength, hamming_weight \in 0..(MaxHammingLength + 1) :
         util = [op |-> "hamming",
                 length |-> length,
                 hamming_weight |-> hamming_weight,
                 sample |-> ZeroPoly(length),
                 total_weight |-> 0,
                 index |-> 0 - 1,
                 out |-> NoCall]
    /\ bfv = NoCall
    /\ ckks = NoCall

HammingRunning == util.op = "hamming" /\ util.out = NoCall

\* One iteration of the while loop in which random.randrange(0, length)
\* returns index.
HammingIterate(index) ==
    /\ HammingRunning
    /\ util.total_weight < util.hamming_weight
    /\ index \in 0..(util.length - 1)
    /\ \E r \in 0..1 :
         LET after == HammingAssign(util.sample, util.total_weight, index, r)
         IN  util' = [util EXCEPT !.sample = after.sample,
                                  !.total_weight = after.total_weight,
                                  !.index = index]
    /\ UNCHANGED <<bfv, ckks>>

\* random.randrange(0, 0) raises ValueError (empty range).
HammingEmptyRange ==
    /\ HammingRunning
    /\ util.total_weight < util.hamming_weight
    /\ util.length = 0
    /\ util' = [util EXCEPT !.out = Raised("ValueError")]
    /\ UNCHANGED <<bfv, ckks>>

\* The loop test fails: "return sample".
HammingReturn ==
    /\ HammingRunning
    /\ ~(util.total_weight < util.hamming_weight)
    /\ util' = [util EXCEPT !.out = Returned(util.sample)]
    /\ UNCHANGED <<bfv, ckks>>

HammingNext ==
    \/ \E index \in 0..(MaxHammingLength - 1) : HammingIterate(index)
    \/ HammingEmptyRange
    \/ HammingReturn

\* The interpreter runs the call on, and random.randrange returns every index
\* of the range again and again (each with probability 1/length at every
\* draw, independently).
HammingFairness ==
    /\ \A index \in 0..(MaxHammingLength - 1) : WF_vars(HammingIterate(index))
    /\ WF_vars(HammingEmptyRange)
    /\ WF_vars(HammingReturn)

SpecHamming == HammingInit /\ [][HammingNext]_vars /\ HammingFairness

HammingValidArgs ==
    util.op = "hamming" /\ util.length >= 1 /\ util.hamming_weight <= util.length

HammingResultOk ==
    /\ ~IsRaised(util.out)
    /\ Len(util.out.value) = util.length
    /\ \A i \in 1..util.length : util.out.value[i] \in {0 - 1, 0, 1}
    /\ NonZeroCount(util.out.value) = util.hamming_weight

\* C21: for length >= 1 and 0 <= hamming_weight <= length the call terminates
\* under fair index draws and returns a vector of that length over {-1, 0, 1}
\* with exactly hamming_weight nonzero entries; during the loop the number of
\* nonzero entries never decreases and never exceeds hamming_weight.
C21_HammingSamplerTerminates ==
    /\ [](HammingValidArgs =>
            /\ NonZeroCount(util.sample) <= util.hamming_weight
            /\ (util.out # NoCall => HammingResultOk))
    /\ [][HammingValidArgs =>
            NonZeroCount(util'.sample) >= NonZeroCount(util.sample)]_vars
    /\ (HammingValidArgs => <>(util.out # NoCall))

C21_Witness ==
    /\ HammingValidArgs /\ util.length = 3 /\ util.hamming_weight = 2
    /\ util.out # NoCall /\ HammingResultOk
    /\ util.sample = <<0 - 1, 0, 1>>

\* C22: with hamming_weight > length the call fails with an error, instead of
\* returning a vector or running forever.
C22_OversizeWeightRejected ==
    (util.op = "hamming" /\ util.hamming_weight > util.length)
        => <>(util.out # NoCall /\ IsRaised(util.out))

(***************************************************************************)
(* root_of_unity session (util/number_theory.py): one call of              *)
(* root_of_unity(order, modulus) for a prime modulus, one action per       *)
(* activation of the function: the call "return root_of_unity(order,       *)
(* modulus)" of line 75 is a new activation with the same arguments, and   *)
(* the interpreter raises RecursionError when the activations exceed its   *)
(* recursion limit.                                                        *)
(***************************************************************************)
\* The largest modulus of the session.
MaxRootModulus == 31

\* The activations the session follows before the interpreter's recursion
\* limit is taken as reached.
MaxRootDepth == 3

RootPrimes == {p \in 2..MaxRootModulus : is_prime(p)}

RootInit ==
    /\ \E modulus \in RootPrimes : \E order \in 1..modulus :
         util = [op |-> "root_of_unity", order |-> order, modulus |-> modulus,
                 depth |-> 0, out |-> NoCall]
    /\ bfv = NoCall
    /\ ckks = NoCall

RootRunning == util.op = "root_of_unity" /\ util.out = NoCall

\* An activation that fails the divisibility test of line 64.
RootRaise ==
    /\ RootRunning
    /\ (util.modulus - 1) % util.order # 0
    /\ util' = [util EXCEPT !.out = Raised("ValueError")]
    /\ UNCHANGED <<bfv, ckks>>

\* An activation that reaches "return result".
RootReturn ==
    /\ RootRunning
    /\ (util.modulus - 1) % util.order = 0
    /\ LET result == root_of_unity(util.order, util.modulus)
       IN  /\ result # 1
           /\ util' = [util EXCEPT !.out = Returned(result)]
    /\ UNCHANGED <<bfv, ckks>>

\* An activation with result == 1: "return root_of_unity(order, modulus)".
RootRecurse ==
    /\ RootRunning
    /\ (util.modulus - 1) % util.order = 0
    /\ root_of_unity(util.order, util.modulus) = 1
    /\ util' = IF util.depth < MaxRootDepth
               THEN [util EXCEPT !.depth = @ + 1]
               ELSE [util EXCEPT !.out = Raised("RecursionError")]
    /\ UNCHANGED <<bfv, ckks>>

RootNext == RootRaise \/ RootReturn \/ RootRecurse

SpecRootOfUnity == RootInit /\ [][RootNext]_vars

\* C23: for a prime p and an order n >= 1, root_of_unity(n, p) fails when n
\* does not divide p - 1, and otherwise returns g^((p-1)/n) mod p for a
\* primitive root g: a value r of 1..p-1 with r^n = 1 (mod p) and of
\* multiplicative order n.
C23_RootOfUnityOrder ==
    (util.op = "root_of_unity" /\ util.out # NoCall) =>
        IF (util.modulus - 1) % util.order # 0
        THEN IsRaised(util.out)
        ELSE /\ ~IsRaised(util.out)
             /\ util.out.value \in 1..(util.modulus - 1)
             /\ util.out.value = mod_exp(find_generator(util.modulus),
                                         (util.modulus - 1) \div util.order,
                                         util.modulus)
             /\ mod_exp(util.out.value, util.order, util.modulus) = 1
             /\ MultOrder(util.out.value, util.modulus) = util.order

(***************************************************************************)
(* CRTContext construction session (util/crt.py): CRTContext(num_primes,   *)
(* prime_size, poly_degree) as its calls of generate_primes and            *)
(* generate_ntt_contexts.                                                  *)
(***************************************************************************)
\* The largest number of primes and the largest prime size of the session.
MaxGenPrimes == 3
MaxPrimeSize == 4

\* The ring degrees of the session.
GenDegrees == {1, 2, 4, 8}

GenInit ==
    /\ \E num_primes \in 1..MaxGenPrimes, prime_size \in 1..MaxPrimeSize,
          poly_degree \in GenDegrees :
         util = [op |-> "crt_init", num_primes |-> num_primes,
                 prime_size |-> prime_size, poly_degree |-> poly_degree,
                 primes |-> <<>>, ntts |-> <<>>, call |-> "none", out |-> NoCall]
    /\ bfv = NoCall
    /\ ckks = NoCall

\* self.generate_primes(num_primes, prime_size, mod=2*poly_degree)
GenGeneratePrimes ==
    /\ util.op = "crt_init" /\ util.call = "none"
    /\ util' = [util EXCEPT
                  !.call = "generate_primes",
                  !.primes = generate_primes(util.num_primes, util.prime_size,
                                             2 * util.poly_degree)]
    /\ UNCHANGED <<bfv, ckks>>

\* self.generate_ntt_contexts(): NTTContext(poly_degree, prime) for each prime
\* in turn, where root_of_unity(2 * poly_degree, prime) raises ValueError
\* unless 2 * poly_degree divides prime - 1.
GenGenerateNttContexts ==
    /\ util.op = "crt_init" /\ util.call = "generate_primes"
    /\ util' =
         IF \E i \in 1..Len(util.primes) :
                (util.primes[i] - 1) % (2 * util.poly_degree) # 0
         THEN [util EXCEPT !.call = "generate_ntt_contexts",
                           !.out = Raised("ValueError")]
         ELSE [util EXCEPT !.call = "generate_ntt_contexts",
                           !.ntts = Strict([i \in 1..Len(util.primes) |->
                                        NTTContext(util.poly_degree, util.primes[i])]),
                           !.out = Returned(Len(util.primes))]
    /\ UNCHANGED <<bfv, ckks>>

GenNext == GenGeneratePrimes \/ GenGenerateNttContexts

SpecCRTPrimes == GenInit /\ [][GenNext]_vars

\* C24: for K >= 1 primes, prime size s >= 1 and a power-of-two degree N,
\* generate_primes(K, s, mod=2N) leaves K strictly increasing primes, each
\* greater than 2^s and each congruent to 1 modulo 2N, so that the NTTContext
\* of every one of them is built.
C24_PrimesCongruentOne ==
    (util.op = "crt_init" /\ util.call # "none") =>
        /\ Len(util.primes) = util.num_primes
        /\ \A i \in 1..Len(util.primes) :
             /\ is_prime(util.primes[i])
             /\ util.primes[i] > Pow(2, util.prime_size)
             /\ util.primes[i] % (2 * util.poly_degree) = 1
             /\ i > 1 => util.primes[i - 1] < util.primes[i]
        /\ (util.call = "generate_ntt_contexts" => ~IsRaised(util.out))

(***************************************************************************)
(* Batch encoder session (bfv/batch_encoder.py): a BatchEncoder, two       *)
(* calls of encode, the product of the two plaintext polynomials by        *)
(* Polynomial.multiply (no NTTContext passed, so multiply_naive), and      *)
(* decode of the product.                                                  *)
(***************************************************************************)
\* (N, t) with N a power of two and t a prime, t = 1 (mod 2N).
BatchParams == {<<1, 3>>, <<2, 5>>, <<4, 17>>}

\* Slot values offered to encode: all of [0, t) in degree 1 and 2, the small
\* values and the top of the range in degree 4.
BatchValues(N, t) == IF N <= 2 THEN 0..(t - 1) ELSE (0..MaxCoeff) \cup {t - 1}

\* BatchEncoder.encode: the coefficients of the Plaintext returned.
BatchEncode(ntt_ctx, values) == ftt_inv(ntt_ctx, values)

\* decode with the plain NTT in place of ftt_fwd.
BatchDecode_untwisted(ntt_ctx, plain_modulus, coeffs) ==
    PolyMod(ftt_fwd_untwisted(ntt_ctx, coeffs), plain_modulus)

\* BatchEncoder.decode
BatchDecode(ntt_ctx, plain_modulus, coeffs) ==
    PolyMod(ftt_fwd(ntt_ctx, coeffs), plain_modulus)

NoBatchPoly == <<>>

\* BatchEncoder(params) and the first vector of slot values.
BatchInit ==
    /\ \E nt \in BatchParams :
         \E inp1 \in Vectors(nt[1], BatchValues(nt[1], nt[2])) :
            bfv = [op |-> "batch", degree |-> nt[1], plain_modulus |-> nt[2],
                   ntt |-> NTTContext(nt[1], nt[2]),
                   inp1 |-> inp1, inp2 |-> inp1,
                   plain1 |-> NoBatchPoly, plain2 |-> NoBatchPoly,
                   plain_prod |-> NoBatchPoly, decoded_prod |-> NoBatchPoly,
                   call |-> "none"]
    /\ util = NoCall
    /\ ckks = NoCall

\* plain1 = encoder.encode(inp1)
BatchEncodeFirst ==
    /\ bfv.op = "batch" /\ bfv.call = "none"
    /\ bfv' = [bfv EXCEPT !.call = "encode1",
                          !.plain1 = BatchEncode(bfv.ntt, bfv.inp1)]
    /\ UNCHANGED <<util, ckks>>

\* plain2 = encoder.encode(inp2)
BatchEncodeSecond ==
    /\ bfv.op = "batch" /\ bfv.call = "encode1"
    /\ \E inp2 \in Vectors(bfv.degree, BatchValues(bfv.degree, bfv.plain_modulus)) :
         bfv' = [bfv EXCEPT !.call = "encode2", !.inp2 = inp2,
                            !.plain2 = BatchEncode(bfv.ntt, inp2)]
    /\ UNCHANGED <<util, ckks>>

\* plain_prod = Plaintext(plain1.poly.multiply(plain2.poly, plain_modulus))
BatchMultiply ==
    /\ bfv.op = "batch" /\ bfv.call = "encode2"
    /\ bfv' = [bfv EXCEPT !.call = "multiply",
                          !.plain_prod = PolyMultiplyNaive(bfv.plain1, bfv.plain2,
                                                           bfv.plain_modulus)]
    /\ UNCHANGED <<util, ckks>>

\* decoded_prod = encoder.decode(plain_prod)
BatchDecodeProduct ==
    /\ bfv.op = "batch" /\ bfv.call = "multiply"
    /\ bfv' = [bfv EXCEPT !.call = "decode",
                          !.decoded_prod = BatchDecode(bfv.ntt, bfv.plain_modulus,
                                                       bfv.plain_prod)]
    /\ UNCHANGED <<util, ckks>>

BatchNext ==
    BatchEncodeFirst \/ BatchEncodeSecond \/ BatchMultiply \/ BatchDecodeProduct

SpecBatch == BatchInit /\ [][BatchNext]_vars

\* C25: for a prime plaintext modulus t = 1 (mod 2N) and slot vectors a, b
\* over [0, t), decode of encode(a).poly.multiply(encode(b).poly, t) is the
\* slot-wise product [(a_i * b_i) mod t].
C25_BatchMultiplicative ==
    (bfv.op = "batch" /\ bfv.call = "decode") =>
        bfv.decoded_prod =
            [i \in 1..bfv.degree |-> (bfv.inp1[i] * bfv.inp2[i]) % bfv.plain_modulus]

\* Degree 4, two vectors that differ, and a product that wraps modulo t in
\* one slot and is 0 in another.
C25_Witness ==
    /\ bfv.op = "batch" /\ bfv.call = "decode" /\ bfv.degree = 4
    /\ bfv.inp1 = <<16, 1, 0, 16>> /\ bfv.inp2 = <<16, 16, 1, 1>>
    /\ bfv.decoded_prod = <<1, 16, 0, 16>>

(***************************************************************************)
(* Polynomial length session (util/polynomial.py): the constructor called  *)
(* with a degree and a coefficient list, and add, subtract and             *)
(* multiply_naive called on two polynomials whose ring degrees may differ. *)
(***************************************************************************)
\* The largest ring degree of the session.
MaxLenDegree == 3

\* Polynomial(degree, coeffs): "assert len(coeffs) == degree".
PolyConstruct(degree, coeffs) ==
    IF Len(coeffs) # degree THEN AssertionError ELSE Returned(coeffs)

\* self.add(poly, coeff_modulus): the comprehension reads poly.coeffs[i] for
\* every i of range(self.ring_degree), an IndexError when poly is shorter.
PolyAddCall(p, poly, coeff_modulus) ==
    IF Len(poly) < Len(p) THEN Raised("IndexError")
    ELSE Returned(PolyAdd(p, poly, coeff_modulus))

\* self.subtract(poly, coeff_modulus)
PolySubtractCall(p, poly, coeff_modulus) ==
    IF Len(poly) < Len(p) THEN Raised("IndexError")
    ELSE Returned(PolySubtract(p, poly, coeff_modulus))

\* self.multiply_naive(poly, coeff_modulus): poly.coeffs[d - i] is read for
\* every 0 <= d - i < self.ring_degree, an IndexError when poly is shorter.
PolyMultiplyNaiveCall(p, poly, coeff_modulus) ==
    IF Len(poly) < Len(p) THEN Raised("IndexError")
    ELSE Returned(PolyMultiplyNaive(p, poly, coeff_modulus))

\* The coefficient moduli passed: 0 stands for None.
LenModuli == {0, 5}

LenPolys == UNION {Vectors(n, SmallCoeffs) : n \in 1..MaxLenDegree}

LenInit ==
    /\ \E a \in LenPolys, b \in LenPolys :
         util = [op |-> "poly_len", a |-> a, b |-> b, degree |-> Len(a),
                 coeff_modulus |-> 0, call |-> "none", out |-> NoCall]
    /\ bfv = NoCall
    /\ ckks = NoCall

LenReady == util.op = "poly_len" /\ util.call = "none"

\* Polynomial(degree, b)
LenConstruct ==
    /\ LenReady
    /\ \E degree \in 1..MaxLenDegree :
         util' = [util EXCEPT !.call = "Polynomial", !.degree = degree,
                              !.out = PolyConstruct(degree, util.b)]
    /\ UNCHANGED <<bfv, ckks>>

\* Polynomial(len(a), a).add(Polynomial(len(b), b), coeff_modulus)
LenAdd ==
    /\ LenReady
    /\ \E coeff_modulus \in LenModuli :
         util' = [util EXCEPT !.call = "add", !.coeff_modulus = coeff_modulus,
                              !.out = PolyAddCall(util.a, util.b, coeff_modulus)]
    /\ UNCHANGED <<bfv, ckks>>

LenSubtract ==
    /\ LenReady
    /\ \E coeff_modulus \in LenModuli :
         util' = [util EXCEPT !.call = "subtract", !.coeff_modulus = coeff_modulus,
                              !.out = PolySubtractCall(util.a, util.b, coeff_modulus)]
    /\ UNCHANGED <<bfv, ckks>>

LenMultiplyNaive ==
    /\ LenReady
    /\ \E coeff_modulus \in LenModuli :
         util' = [util EXCEPT !.call = "multiply_naive",
                              !.coeff_modulus = coeff_modulus,
                              !.out = PolyMultiplyNaiveCall(util.a, util.b,
                                                            coeff_modulus)]
    /\ UNCHANGED <<bfv, ckks>>

LenNext == LenConstruct \/ LenAdd \/ LenSubtract \/ LenMultiplyNaive

SpecPolyLen == LenInit /\ [][LenNext]_vars

\* C26: Polynomial(degree, coeffs) with len(coeffs) # degree fails with an
\* error, and add, subtract and multiply_naive applied to two polynomials of
\* different ring degree fail with an error rather than return a polynomial.
C26_LengthMismatchRejected ==
    /\ (util.op = "poly_len" /\ util.call = "Polynomial"
            /\ Len(util.b) # util.degree) => IsRaised(util.out)
    /\ (util.op = "poly_len" /\ util.call \in {"add", "subtract", "multiply_naive"}
            /\ Len(util.a) # Len(util.b)) => IsRaised(util.out)

(***************************************************************************)
(* Exponential session (ckks/ckks_evaluator.py): a CKKSEvaluator over      *)
(* parameters on which the caller has set rns = False, a relinearization   *)
(* key, a ciphertext with a modulus and a scaling factor of its own, and   *)
(* one call of exp with num_taylor_iterations iterations.                  *)
(***************************************************************************)
\* The largest num_taylor_iterations of the session.
MaxTaylorIterations == 2

\* (N, Q, scaling factor) of the sessions.
ExpParams == {<<2, 256, 2>>, <<2, 256, 4>>, <<4, 256, 2>>}

\* The moduli of the ciphertext handed to exp, for the scaling factor S:
\* below S^4, between S^(4 + MaxTaylorIterations) and the next power, and a
\* power of S.
ExpModuli(scaling_factor) ==
    IF scaling_factor = 2 THEN {8, 100, 256} ELSE {64, 5000, 4096}

RECURSIVE FloorDivideTimes(_, _, _)
\* modulus // divisor // ... // divisor, times divisions.
FloorDivideTimes(modulus, divisor, times) ==
    IF times = 0 THEN modulus
    ELSE FloorDivideTimes(modulus \div divisor, divisor, times - 1)

ExpInit ==
    /\ \E nqs \in ExpParams, num_iterations \in 0..MaxTaylorIterations,
          times \in {1, 2} :
       \E modulus \in ExpModuli(nqs[3]),
          c0 \in Vectors(nqs[1], {0 - 1, 1}), c1 \in {PolyRamp(nqs[1])} :
         LET N == nqs[1]
             params == [EvalParameters(<<N, modulus, nqs[2], nqs[3]>>)
                            EXCEPT !.num_taylor_iterations = num_iterations]
             s == [i \in 1..N |-> IF i = 2 THEN 0 - 1 ELSE 0]
         IN  ckks = [op |-> "exp",
                     params |-> params,
                     evaluator |-> CKKSEvaluator(params),
                     relin_key |-> CKKSRelinKey(params, s,
                                       OneDraw(N, params.big_modulus * params.big_modulus),
                                       [i \in 1..N |-> 1]),
                     encoded |-> PolyRamp(N),
                     ciph |-> [c0 |-> PolyModSmall(c0, modulus),
                               c1 |-> PolyModSmall(c1, modulus),
                               scaling_factor |-> times * nqs[3],
                               modulus |-> modulus],
                     call |-> "none",
                     out |-> NoCKKSCiphertext]
    /\ util = NoCall
    /\ bfv = NoCall

\* evaluator.exp(ciph, const, relin_key, encoder), where encoded is the
\* polynomial encoder.encode returns for const / 2**num_iterations.
ExpCallExp ==
    /\ ckks.op = "exp" /\ ckks.call = "none"
    /\ ckks' = [ckks EXCEPT
                  !.call = "exp",
                  !.out = EvalExp(ckks.evaluator, ckks.ciph, ckks.relin_key,
                                  ckks.encoded, ckks.params.num_taylor_iterations)]
    /\ UNCHANGED <<util, bfv>>

ExpNext == ExpCallExp

SpecCKKSExp == ExpInit /\ [][ExpNext]_vars

\* The levels exp uses up: one for the constant, three in exp_taylor, and one
\* for each squaring.
ExpLevels == 4 + ckks.params.num_taylor_iterations

ExpAligned ==
    /\ ckks.op = "exp" /\ ckks.call = "exp"
    /\ ckks.ciph.scaling_factor = ckks.evaluator.scaling_factor
    /\ ckks.ciph.modulus >= Pow(ckks.evaluator.scaling_factor, ExpLevels)

\* C27: exp applied to a ciphertext of scaling factor S, the evaluator's, and
\* of modulus at least S^(4 + taylor_iters) meets no mismatch assertion in
\* its calls of add, add_plain, subtract and multiply, and returns a
\* ciphertext of scaling factor S whose modulus is the input modulus
\* floor-divided by S 4 + taylor_iters times.
C27_ExpLevelsAligned ==
    ExpAligned =>
        /\ ~IsRaised(ckks.out)
        /\ ckks.out.scaling_factor = ckks.evaluator.scaling_factor
        /\ ckks.out.modulus = FloorDivideTimes(ckks.ciph.modulus,
                                               ckks.evaluator.scaling_factor,
                                               ExpLevels)

\* Two squarings from a modulus that is not a power of the scaling factor.
C27_Witness ==
    /\ ExpAligned /\ ckks.params.num_taylor_iterations = 2
    /\ ckks.ciph.modulus = 100 /\ ckks.evaluator.scaling_factor = 2
    /\ ~IsRaised(ckks.out) /\ ckks.out.modulus = 1

(***************************************************************************)
(* Matrix schedule session (ckks/ckks_evaluator.py multiply_matrix and     *)
(* util/matrix_operations.py): the baby-step/giant-step loops of           *)
(* multiply_matrix followed on the slot vectors, where rotate(ciph, r) is  *)
(* matrix_operations.rotate of the slots by r, multiply_plain the          *)
(* entry-wise product with the encoded vector, and add the entry-wise sum; *)
(* one action for the set-up and one per iteration of the outer loop.      *)
(***************************************************************************)
\* The matrix lengths of the session are 2^0 .. 2^MaxMatrixLog.
MaxMatrixLog == 3

MatrixLens == {Pow(2, k) : k \in 0..MaxMatrixLog}

\* matrix_operations.matrix_vector_multiply
matrix_vector_multiply(mat, vec) ==
    Strict([i \in 1..Len(mat) |->
        SumTo([j \in 1..Len(mat[i]) |-> mat[i][j] * vec[j]], Len(mat[i]))])

\* matrix_operations.diagonal
matrix_diagonal(mat, diag_index) ==
    Strict([j \in 1..Len(mat) |->
        mat[((j - 1) % Len(mat)) + 1][((diag_index + j - 1) % Len(mat)) + 1]])

\* rotate as it would be if it rotated to the right.
matrix_rotate_right(vec, rotation) ==
    Strict([j \in 1..Len(vec) |-> vec[((j - 1 - rotation) % Len(vec)) + 1]])

\* matrix_operations.rotate
matrix_rotate(vec, rotation) ==
    Strict([j \in 1..Len(vec) |-> vec[((j - 1 + rotation) % Len(vec)) + 1]])

\* "matrix_len_factor1 = int(sqrt(matrix_len)); if matrix_len !=
\* matrix_len_factor1 * matrix_len_factor1: matrix_len_factor1 =
\* int(sqrt(2 * matrix_len))"
MatrixLenFactor1(matrix_len) ==
    IF matrix_len # FloorSqrt(matrix_len) * FloorSqrt(matrix_len)
    THEN FloorSqrt(2 * matrix_len) ELSE FloorSqrt(matrix_len)

SlotProduct(a, b) == Strict([t \in 1..Len(a) |-> a[t] * b[t]])

SlotSum(a, b) == Strict([t \in 1..Len(a) |-> a[t] + b[t]])

RECURSIVE SlotInnerSum(_, _, _, _)
\* inner_sum after the first i iterations of the inner loop.
SlotInnerSum(matrix, ciph_rots, shift, i) ==
    LET diagonal == matrix_rotate(matrix_diagonal(matrix, shift + (i - 1)), 0 - shift)
        dot_prod == SlotProduct(ciph_rots[i], diagonal)
    IN  IF i = 1 THEN dot_prod
        ELSE SlotSum(SlotInnerSum(matrix, ciph_rots, shift, i - 1), dot_prod)

\* The matrices and vectors of length L offered to a session.
SlotMatrices(L) ==
    {[r \in 1..L |-> [c \in 1..L |-> ((a * r + b * c + r * c) % 3) - 1]] :
        a \in 0..2, b \in 0..2}

SlotVectors(L) == {[c \in 1..L |-> ((a * c + b) % 5) - 2] : a \in 0..2, b \in 0..2}

NoSlots == <<>>

MatInit ==
    /\ \E L \in MatrixLens :
       \E matrix \in SlotMatrices(L), vec \in SlotVectors(L) :
         ckks = [op |-> "matrix", matrix |-> matrix, vec |-> vec,
                 matrix_len_factor1 |-> 0, matrix_len_factor2 |-> 0,
                 ciph_rots |-> <<>>, j |-> 0, outer_sum |-> NoSlots,
                 diagonals |-> <<>>, call |-> "none", out |-> NoSlots]
    /\ util = NoCall
    /\ bfv = NoCall

\* The statements of multiply_matrix before the outer loop.
MatSetUp ==
    /\ ckks.op = "matrix" /\ ckks.call = "none"
    /\ LET matrix_len == Len(ckks.matrix)
           matrix_len_factor1 == MatrixLenFactor1(matrix_len)
       IN  ckks' = [ckks EXCEPT
                      !.call = "loop",
                      !.matrix_len_factor1 = matrix_len_factor1,
                      !.matrix_len_factor2 = matrix_len \div matrix_len_factor1,
                      !.ciph_rots = Strict([i \in 1..matrix_len_factor1 |->
                                        matrix_rotate(ckks.vec, i - 1)])]
    /\ UNCHANGED <<util, bfv>>

\* One iteration of "for j in range(matrix_len_factor2)"; diagonals records
\* the indices passed to matrix_operations.diagonal.
MatOuterIterate ==
    /\ ckks.op = "matrix" /\ ckks.call = "loop"
    /\ ckks.j < ckks.matrix_len_factor2
    /\ LET shift == ckks.matrix_len_factor1 * ckks.j
           inner_sum == SlotInnerSum(ckks.matrix, ckks.ciph_rots, shift,
                                     ckks.matrix_len_factor1)
           rotated_sum == matrix_rotate(inner_sum, shift)
       IN  ckks' = [ckks EXCEPT
                      !.j = @ + 1,
                      !.diagonals = @ \o [i \in 1..ckks.matrix_len_factor1 |->
                                             shift + (i - 1)],
                      !.outer_sum = IF ckks.outer_sum = NoSlots THEN rotated_sum
                                    ELSE SlotSum(ckks.outer_sum, rotated_sum)]
    /\ UNCHANGED <<util, bfv>>

\* "outer_sum = self.rescale(outer_sum, self.scaling_factor); return
\* outer_sum": the rescaling leaves the slots as they are.
MatReturn ==
    /\ ckks.op = "matrix" /\ ckks.call = "loop"
    /\ ~(ckks.j < ckks.matrix_len_factor2)
    /\ ckks' = [ckks EXCEPT !.call = "multiply_matrix", !.out = ckks.outer_sum]
    /\ UNCHANGED <<util, bfv>>

MatNext == MatSetUp \/ MatOuterIterate \/ MatReturn

SpecMatrix == MatInit /\ [][MatNext]_vars

\* C28: for a matrix length L that is a power of two, the factors n1 and n2
\* of multiply_matrix satisfy n1 * n2 = L, the indices n1 * j + i enumerate
\* every diagonal 0..L-1 exactly once, and the sum over j of rotate(sum over
\* i of rotate(diagonal(M, n1 j + i), -n1 j) (.) rotate(v, i), n1 j) is
\* matrix_vector_multiply(M, v).
C28_MatrixSchedule ==
    (ckks.op = "matrix" /\ ckks.call = "multiply_matrix") =>
        /\ ckks.matrix_len_factor1 * ckks.matrix_len_factor2 = Len(ckks.matrix)
        /\ Len(ckks.diagonals) = Len(ckks.matrix)
        /\ {ckks.diagonals[k] : k \in 1..Len(ckks.diagonals)}
               = 0..(Len(ckks.matrix) - 1)
        /\ ckks.out = matrix_vector_multiply(ckks.matrix, ckks.vec)

\* Length 8, where the factors 4 and 2 differ, on a product that is not 0.
C28_Witness ==
    /\ ckks.op = "matrix" /\ ckks.call = "multiply_matrix"
    /\ Len(ckks.matrix) = 8
    /\ ckks.matrix_len_factor1 = 4 /\ ckks.matrix_len_factor2 = 2
    /\ ckks.out = matrix_vector_multiply(ckks.matrix, ckks.vec)
    /\ \E t \in 1..8 : ckks.out[t] # 0
    /\ ckks.matrix[1] # ckks.matrix[2]
    /\ ckks.vec[1] # ckks.vec[2]

(***************************************************************************)
(* Relinearization session (bfv/bfv_key_generator.py generate_relin_key    *)
(* and bfv/bfv_evaluator.py relinearize): a secret key, a relinearization  *)
(* key from the draws of its rounds, and one call of relinearize on three  *)
(* polynomials with coefficients in [0, q).                                *)
(***************************************************************************)
\* (N, t, q) of the sessions: the bases ceil(sqrt(q)) are 3, 5 and 49.
RelinParams == {<<2, 2, 5>>, <<2, 2, 17>>, <<2, 2, 2400>>}

\* Coefficients of c2: small, the base and twice the base, and the top of
\* the range.
RelinCoeffs(q) == {0, 1, CeilSqrt(q), 2 * CeilSqrt(q), q - 1}

\* The digit polynomial of weight base^i in the base-base expansion of p,
\* for p with coefficients in [0, q).
PolyDigit(p, base, i) ==
    Strict([k \in 1..Len(p) |-> (p[k] \div Pow(base, i)) % base])

RECURSIVE RelinNoise(_, _, _, _, _)
\* e_1 * digit_0(c2) + ... + e_n * digit_(n-1)(c2) modulo q.
RelinNoise(errors, c2, base, q, n) ==
    IF n = 0 THEN ZeroPoly(Len(c2))
    ELSE PolyAdd(RelinNoise(errors, c2, base, q, n - 1),
                 PolyMultiplyNaive(errors[n], PolyDigit(c2, base, n - 1), q), q)

RelinInit ==
    /\ \E ntq \in RelinParams :
       \E s \in TriangleDraws(ntq[1]) :
         bfv = [op |-> "relin", params |-> BFVParameters(ntq[1], ntq[2], ntq[3]),
                secret_key |-> s,
                relin_key |-> [base |-> 0, keys |-> <<>>], relin_errors |-> <<>>,
                c0 |-> NoPoly, c1 |-> NoPoly, c2 |-> NoPoly,
                call |-> "none", out |-> NoCiphertext]
    /\ util = NoCall
    /\ ckks = NoCall

\* generate_relin_key(params)
RelinKeyGen ==
    /\ bfv.op = "relin" /\ bfv.call = "none"
    /\ \E draws \in RelinDraws(bfv.params, {0 - 1, 1}) :
         bfv' = [bfv EXCEPT
                   !.call = "generate_relin_key",
                   !.relin_key = BFVRelinKey(bfv.params, bfv.secret_key, draws),
                   !.relin_errors = [i \in 1..Len(draws) |-> draws[i].error]]
    /\ UNCHANGED <<util, ckks>>

\* evaluator.relinearize(relin_key, c0, c1, c2)
RelinCall ==
    /\ bfv.op = "relin" /\ bfv.call = "generate_relin_key"
    /\ \E c0 \in {OneDraw(bfv.params.poly_degree, bfv.params.ciph_modulus)},
          c1 \in TwoDraws(bfv.params.poly_degree, bfv.params.ciph_modulus),
          c2 \in Vectors(bfv.params.poly_degree, RelinCoeffs(bfv.params.ciph_modulus)) :
         bfv' = [bfv EXCEPT
                   !.call = "relinearize", !.c0 = c0, !.c1 = c1, !.c2 = c2,
                   !.out = BFVRelinearize(bfv.params, bfv.relin_key, c0, c1, c2)]
    /\ UNCHANGED <<util, ckks>>

RelinNext == RelinKeyGen \/ RelinCall

SpecBFVRelin == RelinInit /\ [][RelinNext]_vars

\* c0 + c1 s + c2 s^2 - sum of e_i digit_i(c2), modulo q.
RelinExpected ==
    LET q == bfv.params.ciph_modulus
        s == bfv.secret_key
    IN  PolySubtract(
            PolyAdd(PolyAdd(bfv.c0, PolyMultiplyNaive(bfv.c1, s, q), q),
                    PolyMultiplyNaive(bfv.c2, PolyMultiplyNaive(s, s, q), q), q),
            RelinNoise(bfv.relin_errors, bfv.c2, bfv.relin_key.base, q,
                       Len(bfv.relin_errors)),
            q)

\* C29: for a relinearization key of BFVKeyGenerator for the secret s with
\* errors e_i, and c0, c1, c2 with coefficients in [0, q), the result (c0',
\* c1') of relinearize satisfies c0' + c1' s = c0 + c1 s + c2 s^2 - sum of
\* e_i digit_i(c2) modulo q, with digit_i(c2) the base-B digits of c2, and
\* c0', c1' have coefficients in [0, q).
C29_RelinearizePreservesDecryption ==
    (bfv.op = "relin" /\ bfv.call = "relinearize") =>
        LET q == bfv.params.ciph_modulus
        IN  /\ PolyAdd(bfv.out.c0,
                       PolyMultiplyNaive(bfv.out.c1, bfv.secret_key, q), q)
                   = RelinExpected
            /\ \A k \in 1..bfv.params.poly_degree :
                   bfv.out.c0[k] \in 0..(q - 1) /\ bfv.out.c1[k] \in 0..(q - 1)

(***************************************************************************)
(* Rounding session (util/polynomial.py round): a Polynomial of degree 2   *)
(* whose coefficients are the doubles num / den (den a power of two, so    *)
(* that the double is the rational exactly), each a float or a complex     *)
(* with that real part, and one call of round.                             *)
(***************************************************************************)
\* The largest numerator of a coefficient.
MaxRoundNumerator == 7

RoundDenominators == {1, 2, 4}

RoundCoeffs ==
    [num : (0 - MaxRoundNumerator)..MaxRoundNumerator, den : RoundDenominators,
     complex : BOOLEAN]

\* Polynomial.round: round(c.real) for every coefficient when the first one
\* is a complex, round(c) otherwise, where round of a complex raises
\* TypeError.
PolyRound(coeffs) ==
    IF ~coeffs[1].complex /\ \E i \in 1..Len(coeffs) : coeffs[i].complex
    THEN Raised("TypeError")
    ELSE Returned(Strict([i \in 1..Len(coeffs) |->
                             RoundHalfEven(coeffs[i].num, coeffs[i].den)]))

RoundInit ==
    /\ \E c1 \in RoundCoeffs, c2 \in RoundCoeffs :
         util = [op |-> "round", coeffs |-> <<c1, c2>>, call |-> "none",
                 out |-> NoCall]
    /\ bfv = NoCall
    /\ ckks = NoCall

\* poly.round()
RoundCall ==
    /\ util.op = "round" /\ util.call = "none"
    /\ util' = [util EXCEPT !.call = "round", !.out = PolyRound(util.coeffs)]
    /\ UNCHANGED <<bfv, ckks>>

RoundNext == RoundCall

SpecRound == RoundInit /\ [][RoundNext]_vars

\* |x| = n + 0.5 for an integer n >= 0, for x = num / den.
IsHalfInteger(c) == (2 * Abs(c.num)) % c.den = 0 /\ ((2 * Abs(c.num)) \div c.den) % 2 = 1

\* C30: round takes every coefficient to the nearest integer, and a
\* coefficient with |x| = n + 0.5 to the integer of absolute value n (0.5 to
\* 0, 1.5 to 1, -1.5 to -1).
C30_RoundTiesTowardZero ==
    (util.op = "round" /\ util.call = "round" /\ ~IsRaised(util.out)) =>
        \A i \in 1..Len(util.coeffs) :
            LET c == util.coeffs[i]
                r == util.out.value[i]
            IN  IF IsHalfInteger(c)
                THEN /\ Abs(r) = Abs(c.num) \div c.den
                     /\ (r # 0 => (r > 0) = (c.num > 0))
                ELSE 2 * Abs(r * c.den - c.num) < c.den

=============================================================================
